---- MODULE Spec2Model ----
(***************************************************************************)
(* State-machine model of the MADNESS remote-method-invocation layer       *)
(* (src/lib/world/worldrmi.cc) and of the function-tree node operations    *)
(* of FunctionNode.                                                        *)
(*                                                                         *)
(* RMI part: one destination rank runs the server thread RMI::run; the     *)
(* source ranks run application threads that call RMI::isend.  The         *)
(* transport (MPI) is the set of messages in flight plus the posted        *)
(* receive requests.                                                       *)
(*                                                                         *)
(* Tree part: the container of FunctionNode's, keyed by tree key, and the  *)
(* tasks FunctionNode::accumulate and set_has_children_recursive that the  *)
(* container runs on the node of a key, one at a time per node.            *)
(*                                                                         *)
(* Algorithm part: the operations of FunctionImpl on the tree (gaxpy,      *)
(* compress, refine, multiply, apply) and the functions they rest on.      *)
(***************************************************************************)
EXTENDS Integers, Sequences, FiniteSets, TLC

\* ------------------------------------------------------------------------
\* Bounds of the model
\* ------------------------------------------------------------------------
MaxCalls == 3       \* number of RMI::isend calls explored in one behaviour
NRecvBound == 3     \* value given to nrecv_ (number of eager receive buffers)
FairCalls == 1      \* number of RMI::isend calls explored under the fair specification
TreeDepth == 2      \* deepest level of the function tree (the root is level 0)
MaxSeeds == 1       \* number of keys from which the initial connected tree is grown
MaxAccum == 2       \* number of accumulate calls explored in one behaviour
GaxKeys == 2        \* number of keys of the trees given to gaxpy_inplace
MaxVal == 2         \* largest value of a coefficient offered as an argument
MaxLevel == 2       \* deepest level of a key offered as an argument
MulDepth == 2       \* deepest level of the trees given to mulXX
DispRange == 2      \* largest translation of a displacement along one axis
MaxDisp == 2        \* longest displacement list given to do_apply
MAXK == 3           \* stands for MAXK, the largest wavelet order (set outside these sources)
NCommonThreads == 2 \* threads that ask for the common data of an order
MaxProcs == 3       \* largest number of processes of a process map
MaxFlagCalls == 3   \* number of compress and reconstruct calls made in one behaviour

\* ------------------------------------------------------------------------
\* Program constants
\* ------------------------------------------------------------------------
CounterBits == 16                   \* counterT is unsigned short; attr>>16
CounterMod == 2^CounterBits
ATTR_UNORDERED == 0
ATTR_ORDERED == 1
HEADER_LEN == 64
SizeofSizeT == 8
DEFAULT_MAX_MSG_LEN == 3*512*1024
max_msg_len_ == DEFAULT_MAX_MSG_LEN
nrecv_ == NRecvBound
maxq_ == nrecv_ + 1

Srcs == {1, 2}                      \* the ranks that send to the modelled server rank
Threads == {1, 2}                   \* application threads of a source rank
ThreadsOf(s) == IF s = 1 THEN Threads ELSE {1}

\* sizeof(info) of the control record: size_t info[nword+2]
CtlLen == (HEADER_LEN \div SizeofSizeT + 2) * SizeofSizeT

\* the (nbyte, attr) pairs offered to isend: a payload on each side of each
\* protocol boundary, both delivery classes
Calls == {<<HEADER_LEN - 1, ATTR_ORDERED>>, <<HEADER_LEN, ATTR_ORDERED>>,
          <<max_msg_len_, ATTR_UNORDERED>>, <<max_msg_len_ + 1, ATTR_ORDERED>>}
\* values the per-peer counters can have when the run starts (both sides of a wrap)
StartCounts == {0, CounterMod - 2}

VARIABLES
    send_counters,  \* [Srcs -> counterT]  send_counters[dest] on rank s
    recv_counters,  \* [Srcs -> counterT]  recv_counters[s] on the server rank
    mutex,          \* [Srcs -> set of threads holding the RMI mutex of rank s]
    thr,            \* [Srcs -> [Threads -> frame of the thread inside private_isend]]
    ackq,           \* [Srcs -> Seq(thread)] Irecv's posted on RMI_HUGE_ACK_TAG, in posting order
    ackflight,      \* [Srcs -> Nat] ACKs sent by the server rank and not yet matched
    net,            \* set of messages submitted by Isend and not yet received
    recv_buf,       \* [0..nrecv_ -> buffer]  recv_buf / recv_req of the server rank
    posted,         \* set of eager buffer indices whose Irecv on RMI_TAG is pending
    q,              \* Seq(qmsg)  the out-of-order queue of RMI::run (n_in_q = Len(q))
    hugeq,          \* Seq([src, nbyte, req])  pending huge requests
    dispatched,     \* [Srcs -> Seq(log entry)]  handler invocations for messages of rank s, in order
    sublog,         \* [Srcs -> Seq(message)]  Isend submissions of rank s, in order
    ncalls,         \* number of isend calls made so far (also the id of the last call)
    quota,          \* number of isend calls the application makes in this behaviour
    finished,       \* RMI::finished on the server rank
    srvpc,          \* position of the server thread: "poll", "exited", "exception"
    excs            \* ids of the isend calls that raised the short-buffer exception

rmivars == <<send_counters, recv_counters, mutex, thr, ackq, ackflight, net, recv_buf,
             posted, q, hugeq, dispatched, sublog, ncalls, quota, finished, srvpc, excs>>

VARIABLES
    coeffs,         \* [Keys -> node or NoNode]  the container of FunctionNode's
    tasks,          \* [Keys -> Nat]  pending set_has_children_recursive tasks per key
    naccum,         \* number of accumulate calls run so far
    accumulated     \* the keys accumulate was called on

treevars == <<coeffs, tasks, naccum, accumulated>>

VARIABLES
    gdest,          \* [GKeys -> node or NoEntry]  coeffs of the FunctionImpl gaxpy_inplace is called on
    gother,         \* [GKeys -> node or NoEntry]  other.coeffs
    gargs,          \* [alpha, beta, same]  the scalars, and get_pmap() == other.get_pmap()
    gold,           \* gdest as it was when gaxpy_inplace was called
    gsent,          \* keys of other for which the node operation has been sent
    gpend,          \* keys whose node operation is sent and has not run yet
    gpc             \* "idle", "run" (inside gaxpy_inplace), "fenced" (it has returned)

gaxvars == <<gdest, gother, gargs, gold, gsent, gpend, gpc>>

VARIABLES
    op,             \* name of the FunctionImpl member function applied last ("none" at first)
    opin,           \* its arguments and the state it read
    opout           \* what it returned and the state it wrote

opvars == <<op, opin, opout>>

VARIABLES
    mleft,          \* [MKeys -> node or NoEntry]  left->coeffs, a reconstructed tree
    mright,         \* [MKeys -> node or NoEntry]  right->coeffs, a reconstructed tree
    mtol,           \* the argument tol of mulXX
    mresult,        \* [MKeys -> node or NoEntry]  coeffs of the result
    mtasks,         \* pending mulXXa tasks: records [key, lc, rc]
    mlog,           \* [MKeys -> how the key was written: "", "do_mul", "zero", "interior"]
    mpc             \* "idle", "run" (inside mulXX), "fenced" (it has returned)

mulvars == <<mleft, mright, mtol, mresult, mtasks, mlog, mpc>>

VARIABLES
    data,           \* [CommonOrders -> record]  FunctionCommonData::data[k]: initialized, the state of the tables, and how often _initialize has started on it
    cthr            \* [CommonThreads -> [pc, k]]  position of each thread inside FunctionCommonData::get(k)

cdvars == <<data, cthr>>

VARIABLES
    ntree,          \* [MKeys -> node or NoEntry]  coeffs of the tree a bottom-up recursion runs on
    nkind,          \* "none", "norm_tree" or "compress": the recursion that was called
    fut,            \* [MKeys -> <<>> or <<value>>]  the future a spawn on the key returned: unset, or set to its value
    ntasks,         \* pending tasks: records [f, key], f being "spawn" or "op"
    nblocked,       \* keys whose op task called get() on a future that was not set
    nres,           \* [MKeys -> <<>> or <<value>>]  what the op task of a key wrote to its node
    ntpc            \* "idle", "run" (inside the call), "fenced" (all tasks done)

ntvars == <<ntree, nkind, fut, ntasks, nblocked, nres, ntpc>>

VARIABLES
    fi,             \* the constructor being run and its arguments ([which |-> "none"] before the call)
    fipc,           \* position inside the constructor
    fimembers,      \* names of the members of the FunctionImpl initialized so far
    ficoeffs,       \* [MKeys -> node or NoEntry]  the container coeffs of the new object
    fitasks,        \* keys of the project_refine_op tasks submitted, in order
    fipend,         \* messages that arrived for "coeffs" or "this" and wait for process_pending
    fireg,          \* which of "coeffs", "this" have had process_pending called
    fisent,         \* which of "coeffs", "this" a message has been sent to
    fihandled,      \* handled messages: records [to, members, at], the state they were handled against
    fifenced        \* TRUE once the constructor has run world.gop.fence()

fivars == <<fi, fipc, fimembers, ficoeffs, fitasks, fipend, fireg, fisent, fihandled, fifenced>>

VARIABLES
    flags,          \* [FlagRanks -> [compressed, nonstandard]]  the two flags of the FunctionImpl on each rank
    flagpc,         \* [FlagRanks -> position inside compress / reconstruct]
    flagidx,        \* [FlagRanks -> number of compress / reconstruct calls the rank has started]
    flagprog,       \* the calls the program makes, in order (every rank makes the same calls)
    flagtasks       \* recursion tasks spawned and not yet run

flagvars == <<flags, flagpc, flagidx, flagprog, flagtasks>>

VARIABLES
    xres,           \* [GKeys -> node or NoEntry]  coeffs of the result gaxpy is called on
    xleft,          \* [GKeys -> node or NoEntry]  left.coeffs
    xright,         \* [GKeys -> node or NoEntry]  right.coeffs
    xargs,          \* [alpha, beta]
    xold,           \* xres as it was when gaxpy was called
    xsent,          \* <<side, key>> of the entries of left and right visited so far
    xpend,          \* node operations sent that have not run yet
    xlog,           \* the node operations that have run, in order
    xpc             \* "idle", "left" (first loop), "right" (second loop), "fenced"

xgvars == <<xres, xleft, xright, xargs, xold, xsent, xpend, xlog, xpc>>

VARIABLES
    rtree,          \* [MKeys -> node or NoEntry]  coeffs of the tree refine is called on
    rold,           \* rtree as it was when refine was called
    rpend,          \* [task -> Nat]  how often each task <<f, key>> is submitted and not yet run
    rvisits,        \* [MKeys -> Nat]  runs of refine_spawn on each key
    rops,           \* [MKeys -> Nat]  runs of refine_op on each key
    rpc             \* "idle", "run" (inside refine), "fenced" (it has returned)

rfvars == <<rtree, rold, rpend, rvisits, rops, rpc>>

VARIABLES
    vresult,        \* [MKeys -> node or NoEntry]  coeffs of the result of mulXXvec
    vtasks,         \* the mulXXveca and do_mul tasks submitted and not yet run
    vlog,           \* [MKeys -> ""|"do_mul"|"zero"|"interior"]  how mulXXvec wrote a key
    vpc             \* "idle", "run" (inside mulXXvec), "fenced" (it has returned)

mvvars == <<vresult, vtasks, vlog, vpc>>

latevars == <<xgvars, rfvars, mvvars>>

\* the variables of the parts that precede the out-of-place gaxpy
earlyvars == <<rmivars, treevars, gaxvars, opvars, mulvars, cdvars, ntvars, fivars, flagvars>>

extvars == <<cdvars, ntvars, fivars, flagvars, latevars>>

algvars == <<gaxvars, opvars, mulvars, extvars>>

vars == <<rmivars, treevars, algvars>>

\* ------------------------------------------------------------------------
\* Bit operations on attrT / counterT
\* ------------------------------------------------------------------------
RECURSIVE BitOr(_, _)
BitOr(a, b) ==
    IF a = 0 THEN b
    ELSE IF b = 0 THEN a
    ELSE (IF (a % 2 = 1) \/ (b % 2 = 1) THEN 1 ELSE 0) + 2 * BitOr(a \div 2, b \div 2)

RECURSIVE BitAnd(_, _)
BitAnd(a, b) ==
    IF a = 0 \/ b = 0 THEN 0
    ELSE (IF (a % 2 = 1) /\ (b % 2 = 1) THEN 1 ELSE 0) + 2 * BitAnd(a \div 2, b \div 2)

\* attrT is a 32-bit unsigned word, kept as its two 16-bit halves:
\* the value is hi * 2^16 + lo
Attr(lo, hi) == [lo |-> lo, hi |-> hi]

\* RMI::is_ordered: attr & ATTR_ORDERED
is_ordered(attr) == BitAnd(attr.lo, ATTR_ORDERED) # 0

\* attr |= ((send_counters[dest]++)<<16)
StampAttr(attr, counter) == Attr(attr.lo, BitOr(attr.hi, counter % CounterMod))

\* counterT count = (attr>>16)
CountOf(attr) == attr.hi % CounterMod

\* ++ on an unsigned short
Incr(c) == (c + 1) % CounterMod

\* ------------------------------------------------------------------------
\* Messages, buffers, thread frames
\* ------------------------------------------------------------------------
NoInfo == [src |-> 0, nbyte |-> 0]
NoAttr == [lo |-> 0, hi |-> 0]
NoMsg == [id |-> 0, src |-> 0, nbyte |-> 0, attr |-> NoAttr, func |-> "none",
          tag |-> "none", info |-> NoInfo]
NoWant == [src |-> 0, nbyte |-> 0, req |-> 0]

\* an eager buffer whose Irecv on RMI_TAG is pending
PostedBuf == [st |-> "posted", msg |-> NoMsg, want |-> NoWant]
\* recv_buf[nrecv_] = 0
NullBuf == [st |-> "null", msg |-> NoMsg, want |-> NoWant]

IdleFrame == [pc |-> "idle", id |-> 0, nbyte |-> 0, attr |-> NoAttr, func |-> "none",
              tag |-> "none"]

\* qmsg(len, func, i, src, attr, count); msg is the content of recv_buf[i]
qmsg(len, func, i, src, attr, count, msg) ==
    [len |-> len, func |-> func, i |-> i, src |-> src, attr |-> attr, count |-> count,
     msg |-> msg]

\* ------------------------------------------------------------------------
\* The application threads: RMI::isend -> RMI::private_isend
\* ------------------------------------------------------------------------
\* (variant: the eager limit taken one byte short)
IsHugeFromLimit(nbyte) == nbyte >= max_msg_len_

\* if (nbyte > max_msg_len_)
IsHuge(nbyte) == nbyte > max_msg_len_

\* else if (nbyte < HEADER_LEN)
IsShort(nbyte) == nbyte < HEADER_LEN

\* (variant: no mutual exclusion)
MutexNotTaken(s) == TRUE

\* lock(): the mutex of rank s can be taken
MutexFree(s) == mutex[s] = {}

\* (variant: the payload is sent without waiting for the ACK)
AckNotAwaited(s, t) == TRUE

\* while (!req_ack.Test()) waiter.wait();  the thread's Irecv on RMI_HUGE_ACK_TAG
\* has completed when it is no longer among the pending ACK receives
AckReceived(s, t) == \A k \in 1..Len(ackq[s]) : ackq[s][k] # t

\* lock(); if (is_ordered(attr)) attr |= ((send_counters[dest]++)<<16);
\* The frame f of the calling thread after the stamp, and the counters.
Stamped(s, f) ==
    IF is_ordered(f.attr)
    THEN [f EXCEPT !.pc = "send", !.attr = StampAttr(@, send_counters[s])]
    ELSE [f EXCEPT !.pc = "send"]

CountersAfterStamp(s, f) ==
    IF is_ordered(f.attr) THEN [send_counters EXCEPT ![s] = Incr(@)] ELSE send_counters

\* RMI::isend(buf, nbyte, dest, func, attr) -> private_isend, from its entry
\*   huge:  post the Irecv for the ACK; the control record is sent next
\*   short: MADNESS_EXCEPTION
\*   else:  lock() and stamp; the Isend follows in SubmitAndUnlock
IsendBegin(s, t) ==
    /\ thr[s][t].pc = "idle"
    /\ ~finished
    /\ ncalls < quota
    /\ \E c \in Calls :
        LET id == ncalls + 1
            nbyte == c[1]
            f == [IdleFrame EXCEPT !.id = id, !.nbyte = nbyte, !.attr = Attr(c[2], 0),
                                   !.func = "user", !.tag = "RMI_TAG"]
        IN  /\ ncalls' = id
            /\ IF IsHuge(nbyte)
               THEN /\ ackq' = [ackq EXCEPT ![s] = Append(@, t)]
                    /\ thr' = [thr EXCEPT ![s][t] = [f EXCEPT !.pc = "ctl"]]
                    /\ UNCHANGED <<excs, mutex, send_counters>>
               ELSE IF IsShort(nbyte)
               THEN /\ excs' = excs \cup {id}
                    /\ UNCHANGED <<ackq, thr, mutex, send_counters>>
               ELSE /\ MutexFree(s)
                    /\ mutex' = [mutex EXCEPT ![s] = {t}]
                    /\ thr' = [thr EXCEPT ![s][t] = Stamped(s, f)]
                    /\ send_counters' = CountersAfterStamp(s, f)
                    /\ UNCHANGED <<ackq, excs>>
    /\ UNCHANGED <<algvars, treevars, quota, recv_counters, ackflight, net, recv_buf, posted,
                   q, hugeq, dispatched, sublog, finished, srvpc>>

\* The control record: size_t info[nword+2] = {..., rank, nbyte}, sent to
\* RMI::huge_msg_handler with ATTR_UNORDERED
CtlMsg(s, f) ==
    [id |-> f.id, src |-> s, nbyte |-> CtlLen, attr |-> Attr(ATTR_UNORDERED, 0),
     func |-> "huge_msg_handler", tag |-> "RMI_TAG", info |-> [src |-> s, nbyte |-> f.nbyte]]

\* The caller's buffer with the header written: h->func = func; h->attr = attr
BufMsg(s, f) ==
    [id |-> f.id, src |-> s, nbyte |-> f.nbyte, attr |-> f.attr, func |-> f.func,
     tag |-> f.tag, info |-> NoInfo]

\* private_isend(info, sizeof(info), dest, RMI::huge_msg_handler, ATTR_UNORDERED):
\* the nested call is neither huge nor short; it locks, submits the control
\* record on RMI_TAG (nothing to stamp) and unlocks
SendCtl(s, t) ==
    /\ thr[s][t].pc = "ctl"
    /\ ~IsHuge(CtlLen) /\ ~IsShort(CtlLen)
    /\ MutexFree(s)
    /\ LET m == CtlMsg(s, thr[s][t])
       IN  /\ net' = net \cup {m}
           /\ sublog' = [sublog EXCEPT ![s] = Append(@, m)]
    /\ thr' = [thr EXCEPT ![s][t].pc = "wait_ack"]
    /\ UNCHANGED <<algvars, treevars, quota, send_counters, recv_counters, mutex, ackq, ackflight, recv_buf, posted, q,
                   hugeq, dispatched, ncalls, finished, srvpc, excs>>

\* while (!req_send.Test()) ...; while (!req_ack.Test()) ...; tag = RMI_HUGE_DAT_TAG;
\* then lock() and stamp
WaitAck(s, t) ==
    /\ thr[s][t].pc = "wait_ack"
    /\ AckReceived(s, t)
    /\ MutexFree(s)
    /\ mutex' = [mutex EXCEPT ![s] = {t}]
    /\ LET f == [thr[s][t] EXCEPT !.tag = "RMI_HUGE_DAT_TAG"]
       IN  /\ thr' = [thr EXCEPT ![s][t] = Stamped(s, f)]
           /\ send_counters' = CountersAfterStamp(s, f)
    /\ UNCHANGED <<algvars, treevars, quota, recv_counters, ackq, ackflight, net, recv_buf, posted, q, hugeq,
                   dispatched, sublog, ncalls, finished, srvpc, excs>>

\* h->func = func; h->attr = attr; comm.Isend(buf, nbyte, MPI_BYTE, dest, tag); unlock();
SubmitAndUnlock(s, t) ==
    /\ thr[s][t].pc = "send"
    /\ LET m == BufMsg(s, thr[s][t])
       IN  /\ net' = net \cup {m}
           /\ sublog' = [sublog EXCEPT ![s] = Append(@, m)]
    /\ mutex' = [mutex EXCEPT ![s] = @ \ {t}]
    /\ thr' = [thr EXCEPT ![s][t] = IdleFrame]
    /\ UNCHANGED <<algvars, treevars, quota, send_counters, recv_counters, ackq, ackflight, recv_buf, posted, q,
                   hugeq, dispatched, ncalls, finished, srvpc, excs>>

\* ------------------------------------------------------------------------
\* The transport
\* ------------------------------------------------------------------------
\* the smallest element of a non-empty set of integers
Min(S) == CHOOSE x \in S : \A y \in S : x <= y

\* A message sent on RMI_TAG completes one of the pending eager receives.  All
\* of them are alike (MPI_ANY_SOURCE, RMI_TAG, max_msg_len_ bytes) and Testsome
\* may list completed indices in any order, so which buffer it is makes no
\* difference: the lowest pending index stands for any of them.
ArriveEager(m) ==
    /\ m.tag = "RMI_TAG"
    /\ posted # {}
    /\ LET i == Min(posted)
       IN  /\ recv_buf' = [recv_buf EXCEPT ![i] = [st |-> "complete", msg |-> m, want |-> NoWant]]
           /\ posted' = posted \ {i}
    /\ net' = net \ {m}
    /\ UNCHANGED <<algvars, treevars, quota, send_counters, recv_counters, mutex, thr, ackq, ackflight, q, hugeq,
                   dispatched, sublog, ncalls, finished, srvpc, excs>>

\* A payload sent on RMI_HUGE_DAT_TAG completes the receive posted on that
\* tag for its source rank: comm.Irecv(recv_buf[nrecv_], nbyte, MPI_BYTE, src, RMI_HUGE_DAT_TAG)
ArriveHuge(m) ==
    /\ m.tag = "RMI_HUGE_DAT_TAG"
    /\ recv_buf[nrecv_].st = "posted"
    /\ recv_buf[nrecv_].want.src = m.src
    /\ recv_buf' = [recv_buf EXCEPT ![nrecv_] = [@ EXCEPT !.st = "complete", !.msg = m]]
    /\ net' = net \ {m}
    /\ UNCHANGED <<algvars, treevars, quota, send_counters, recv_counters, mutex, thr, ackq, ackflight, posted, q,
                   hugeq, dispatched, sublog, ncalls, finished, srvpc, excs>>

\* An ACK sent on RMI_HUGE_ACK_TAG completes the earliest Irecv that a thread
\* of rank s has posted on that tag.
ArriveAck(s) ==
    /\ ackflight[s] > 0
    /\ ackq[s] # <<>>
    /\ ackflight' = [ackflight EXCEPT ![s] = @ - 1]
    /\ ackq' = [ackq EXCEPT ![s] = Tail(@)]
    /\ UNCHANGED <<algvars, treevars, quota, send_counters, recv_counters, mutex, thr, net, recv_buf, posted, q,
                   hugeq, dispatched, sublog, ncalls, finished, srvpc, excs>>

\* ------------------------------------------------------------------------
\* The server thread: RMI::run and what it calls.  The operators below work
\* on a record st of the server's state, threaded through one wakeup:
\*   rc (recv_counters), q, hq (hugeq), buf (recv_buf), posted, log (dispatched),
\*   acks (ackflight), exc (an exception was raised)
\* ------------------------------------------------------------------------
\* (variant: the test on recv_buf[nrecv_] is left out)
post_pending_over_pending(st) ==
    IF st.hq # <<>>
    THEN LET want == Head(st.hq)
         IN  [st EXCEPT !.hq = Tail(@),
                        !.buf[nrecv_] = [st |-> "posted", msg |-> NoMsg, want |-> want],
                        !.acks[want.src] = @ + 1]
    ELSE st

\* RMI::post_pending_huge_msg
post_pending_huge_msg(st) ==
    IF st.buf[nrecv_].st # "null" THEN st          \* Message already pending
    ELSE IF st.hq # <<>>
    THEN LET want == Head(st.hq)
         IN  [st EXCEPT !.hq = Tail(@),
                        !.buf[nrecv_] = [st |-> "posted", msg |-> NoMsg, want |-> want],
                        !.acks[want.src] = @ + 1]
    ELSE st

\* RMI::post_recv_buf
post_recv_buf(i, st) ==
    IF i < nrecv_
    THEN [st EXCEPT !.buf[i] = PostedBuf, !.posted = @ \cup {i}]
    ELSE IF i = nrecv_
    THEN post_pending_huge_msg([st EXCEPT !.buf[i] = NullBuf])
    ELSE [st EXCEPT !.exc = TRUE]

\* RMI::huge_msg_handler: queue (src, nbyte) read from the control record.
\* req records which isend call issued the request.
huge_msg_handler(m, st) ==
    post_pending_huge_msg(
        [st EXCEPT !.hq = Append(@, [src |-> m.info.src, nbyte |-> m.info.nbyte,
                                      req |-> m.id])])

\* func(recv_buf[i], len): the handler named in the header runs in the server
\* thread.  The log keeps the message, the loop that invoked the handler
\* ("invoking" / "queue invoking") and the value of finished at that time.
InvokeHandler(m, via, st) ==
    LET st1 == [st EXCEPT !.log[m.src] = Append(@, [msg |-> m, via |-> via, fin |-> finished])]
    IN  IF m.func = "huge_msg_handler" THEN huge_msg_handler(m, st1) ELSE st1

\* (variant: the counter advances for every digested message)
BumpRecvCounterAlways(attr, src, rc) == [rc EXCEPT ![src] = Incr(@)]

\* if (is_ordered(attr)) ++(recv_counters[src]);
BumpRecvCounter(attr, src, rc) ==
    IF is_ordered(attr) THEN [rc EXCEPT ![src] = Incr(@)] ELSE rc

\* (variant: every message is digested on arrival)
DigestAlways(attr, count, src, rc) == TRUE

\* if (!is_ordered(attr) || count==recv_counters[src])
DigestNow(attr, count, src, rc) == (~is_ordered(attr)) \/ count = rc[src]

\* (variant: the queue has room for one message)
QueueOverflowAtOne(n) == n >= 1

\* if (n >= maxq_) MADNESS_EXCEPTION(...)
QueueOverflow(n) == n >= maxq_

\* (variant: the buffer of a parked message is posted again at once)
ArrivedBodyReposting(i, st) ==
    LET m == st.buf[i].msg
        src == m.src
        attr == m.attr
        count == CountOf(attr)
    IN  IF DigestNow(attr, count, src, st.rc)
        THEN post_recv_buf(i,
                 InvokeHandler(m, "arrived", [st EXCEPT !.rc = BumpRecvCounter(attr, src, @)]))
        ELSE post_recv_buf(i,
                 [st EXCEPT !.q = Append(@, qmsg(m.nbyte, m.func, i, src, attr, count, m))])

\* Body of the loop over the narrived completed receives, for index i = ind[m]
ArrivedBody(i, st) ==
    LET m == st.buf[i].msg
        src == m.src
        attr == m.attr
        count == CountOf(attr)
    IN  IF DigestNow(attr, count, src, st.rc)
        THEN post_recv_buf(i,
                 InvokeHandler(m, "arrived", [st EXCEPT !.rc = BumpRecvCounter(attr, src, @)]))
        ELSE LET n == Len(st.q)
             IN  IF QueueOverflow(n)
                 THEN [st EXCEPT !.exc = TRUE]
                 ELSE [st EXCEPT !.q = Append(@, qmsg(m.nbyte, m.func, i, src, attr, count, m)),
                                 !.buf[i].st = "held"]

\* for (int m=0; m<narrived; ++m) over the indices in the order Testsome gave them
RECURSIVE ArrivedLoop(_, _)
ArrivedLoop(order, st) ==
    IF order = <<>> \/ st.exc THEN st
    ELSE ArrivedLoop(Tail(order), ArrivedBody(Head(order), st))

\* qmsg::operator< as used by std::sort(q.get(), q.get()+n_in_q): ascending recv count
qmsgLess(a, b) == a.count < b.count

\* the results std::sort can give: the orderings of the queue in which no
\* element is less than one before it (std::sort is not stable)
SortResults(qq) ==
    LET n == Len(qq)
        perms == {f \in [1..n -> 1..n] : \A a, b \in 1..n : a # b => f[a] # f[b]}
    IN  {[k \in 1..n |-> qq[f[k]]] : f \in
            {f \in perms : \A a, b \in 1..n : a < b => ~qmsgLess(qq[f[b]], qq[f[a]])}}

\* Body of the loop over the sorted queue; left is q[0..nleftover)
QueueBody(e, st) ==
    IF e.count = st.rc[e.src]
    THEN post_recv_buf(e.i, InvokeHandler(e.msg, "queue", [st EXCEPT !.rc[e.src] = Incr(@)]))
    ELSE [st EXCEPT !.q = Append(@, e)]

\* for (int m=0; m<n_in_q; ++m) ... n_in_q = nleftover
RECURSIVE QueueLoop(_, _)
QueueLoop(qs, st) ==
    IF qs = <<>> THEN st
    ELSE QueueLoop(Tail(qs), QueueBody(Head(qs), st))

\* The indices Testsome reports: the receives that have completed
Completed == {i \in 0..nrecv_ : recv_buf[i].st = "complete"}

\* the orders in which Testsome can list a set of completed indices
Orders(S) ==
    LET n == Cardinality(S)
    IN  {f \in [1..n -> S] : \A a, b \in 1..n : a # b => f[a] # f[b]}

ServerState ==
    [rc |-> recv_counters, q |-> q, hq |-> hugeq, buf |-> recv_buf, posted |-> posted,
     log |-> dispatched, acks |-> ackflight, exc |-> FALSE]

\* One wakeup of the server thread: Testsome returned narrived > 0.  The
\* arrived loop, the sort, the queue loop and post_pending_huge_msg.
Wakeup ==
    /\ srvpc = "poll"
    /\ Completed # {}
    /\ \E order \in Orders(Completed) :
         LET st1 == ArrivedLoop(order, ServerState)
         IN  IF st1.exc
             THEN /\ srvpc' = "exception"
                  /\ recv_counters' = st1.rc /\ q' = st1.q /\ hugeq' = st1.hq
                  /\ recv_buf' = st1.buf /\ posted' = st1.posted
                  /\ dispatched' = st1.log /\ ackflight' = st1.acks
             ELSE \E qs \in SortResults(st1.q) :
                    LET st3 == post_pending_huge_msg(QueueLoop(qs, [st1 EXCEPT !.q = <<>>]))
                    IN  /\ srvpc' = IF st3.exc THEN "exception" ELSE "poll"
                        /\ recv_counters' = st3.rc /\ q' = st3.q /\ hugeq' = st3.hq
                        /\ recv_buf' = st3.buf /\ posted' = st3.posted
                        /\ dispatched' = st3.log /\ ackflight' = st3.acks
    /\ UNCHANGED <<algvars, treevars, quota, send_counters, mutex, thr, ackq, net, sublog, ncalls, finished, excs>>

\* (variant: the flag is examined before the poll result)
PollIgnored == TRUE

\* !(narrived = Testsome(maxq_, recv_req, ind, status))
PollFindsNone == Completed = {}

\* while (!(narrived = Testsome(...))) { if (finished) return; ... }
\* Testsome returned 0 and the flag is set: run() returns.  (With the flag
\* clear the thread waits and polls again, which changes nothing.)
ServerExit ==
    /\ srvpc = "poll"
    /\ PollFindsNone
    /\ finished
    /\ srvpc' = "exited"
    /\ UNCHANGED <<algvars, treevars, quota, send_counters, recv_counters, mutex, thr, ackq, ackflight, net, recv_buf,
                   posted, q, hugeq, dispatched, sublog, ncalls, finished, excs>>

\* RMI::end -> RMI::private_exit: finished = true
End ==
    /\ ~finished
    /\ \A s \in Srcs : \A t \in ThreadsOf(s) : thr[s][t].pc = "idle"
    /\ finished' = TRUE
    /\ UNCHANGED <<algvars, treevars, quota, send_counters, recv_counters, mutex, thr, ackq, ackflight, net, recv_buf,
                   posted, q, hugeq, dispatched, sublog, ncalls, srvpc, excs>>

\* ========================================================================
\* The function tree: FunctionNode::accumulate and
\* FunctionNode::set_has_children_recursive
\* ========================================================================
\* Keys of a binary tree (NDIM = 1) numbered as in a heap: the root is 1 and
\* the children of k are 2k and 2k+1.
Root == 1
Keys == 1..(2^(TreeDepth + 1) - 1)

\* Key::level()
RECURSIVE KeyLevel(_)
KeyLevel(k) == IF k = Root THEN 0 ELSE 1 + KeyLevel(k \div 2)

\* Key::parent()
KeyParent(k) == k \div 2

\* the proper ancestors of k, up to the root
RECURSIVE Ancestors(_)
Ancestors(k) == IF k = Root THEN {} ELSE {KeyParent(k)} \cup Ancestors(KeyParent(k))

NoNode == [exists |-> FALSE, has_coeff |-> FALSE, has_children |-> FALSE]

\* FunctionNode(): a node without coefficients or children
FunctionNode == [exists |-> TRUE, has_coeff |-> FALSE, has_children |-> FALSE]

\* the node a task of the container runs on: the entry of the key, default
\* constructed when the key has no entry yet
NodeFor(k) == IF coeffs[k].exists THEN coeffs[k] ELSE FunctionNode

\* the test of set_has_children_recursive, weakened to never recur
NeverRecur(node, k) == FALSE

\* set_has_children_recursive: the node is neither known to have children,
\* nor has coefficients, nor is the root
MustConnect(node, k) == ~(node.has_children \/ node.has_coeff \/ KeyLevel(k) = 0)

\* accumulate: the node had no coefficients, has no children and is not the root
MustRegister(node, k) == ~node.has_coeff /\ ~node.has_children /\ KeyLevel(k) > 0

\* c.task(parent, &FunctionNode::set_has_children_recursive, c, parent, hipri)
SpawnTask(ts, k) == [ts EXCEPT ![k] = @ + 1]

\* FunctionNode::accumulate(t, c, key), run by the container on the node of key
accumulate(k) ==
    /\ naccum < MaxAccum
    /\ LET node == NodeFor(k)
       IN  /\ coeffs' = [coeffs EXCEPT ![k] = [node EXCEPT !.has_coeff = TRUE]]
           /\ tasks' = IF MustRegister(node, k) THEN SpawnTask(tasks, KeyParent(k)) ELSE tasks
    /\ naccum' = naccum + 1
    /\ accumulated' = accumulated \cup {k}
    /\ UNCHANGED <<rmivars, algvars>>

\* FunctionNode::set_has_children_recursive(c, key), run by the container on
\* the node of key when one such task is pending
set_has_children_recursive(k) ==
    /\ tasks[k] > 0
    /\ LET node == NodeFor(k)
           done == [tasks EXCEPT ![k] = @ - 1]
       IN  /\ tasks' = IF MustConnect(node, k) THEN SpawnTask(done, KeyParent(k)) ELSE done
           /\ coeffs' = [coeffs EXCEPT ![k] = [node EXCEPT !.has_children = TRUE]]
    /\ UNCHANGED <<naccum, accumulated, rmivars, algvars>>

\* the tree that has an entry for every seed and for every ancestor of a
\* seed: ancestors have children, the seeds in withCoeff have coefficients
GrownFrom(seeds, withCoeff) ==
    [k \in Keys |->
        LET inner == \E j \in seeds : k \in Ancestors(j)
        IN  IF k \in seeds \/ inner
            THEN [exists |-> TRUE, has_coeff |-> k \in withCoeff, has_children |-> inner]
            ELSE NoNode]

\* no tree activity: the container is empty
TreeEmpty ==
    /\ coeffs = [k \in Keys |-> NoNode]
    /\ tasks = [k \in Keys |-> 0]
    /\ naccum = 0
    /\ accumulated = {}

\* ========================================================================
\* FunctionNode::gaxpy_inplace and FunctionImpl::gaxpy_inplace
\* ========================================================================
\* the keys of the two trees
GKeys == 1..GaxKeys

\* A coefficient tensor is the sequence of its elements; the empty tensor
\* (size 0) is the empty sequence.
EmptyTensor == <<>>

\* key without an entry in a container
NoEntry == [exists |-> FALSE, coeff |-> EmptyTensor, has_children |-> FALSE]

\* FunctionNode(coeff, has_children)
MakeNode(coeff, has_children) == [exists |-> TRUE, coeff |-> coeff, has_children |-> has_children]

\* FunctionNode::has_coeff: _coeffs.size > 0
has_coeff(node) == Len(node.coeff) > 0

\* Tensor::gaxpy: this = this*alpha + other*beta, element by element
TensorGaxpy(t, alpha, o, beta) == [i \in 1..Len(t) |-> alpha * t[i] + beta * o[i]]

\* Tensor::scale, Tensor::operator*(scalar)
TensorScale(t, a) == [i \in 1..Len(t) |-> a * t[i]]

\* (variant: has_children is taken from other)
ChildrenFromOther(mine, theirs) == theirs

\* if (other.has_children()) _has_children = true;
ChildrenAfterGaxpy(mine, theirs) == IF theirs THEN TRUE ELSE mine

\* FunctionNode::gaxpy_inplace(alpha, other, beta) on node
gaxpy_inplace(node, alpha, other, beta) ==
    LET hc == ChildrenAfterGaxpy(node.has_children, other.has_children)
        c == IF has_coeff(node)
             THEN IF has_coeff(other)
                  THEN TensorGaxpy(node.coeff, alpha, other.coeff, beta)
                  ELSE TensorScale(node.coeff, alpha)
             ELSE IF has_coeff(other)
                  THEN TensorScale(other.coeff, beta)
                  ELSE node.coeff
    IN  [node EXCEPT !.coeff = c, !.has_children = hc]

\* the node a sent operation runs on: the entry of the key, default
\* constructed when the key has no entry yet
EntryFor(k) == IF gdest[k].exists THEN gdest[k] ELSE MakeNode(EmptyTensor, FALSE)

\* the nodes a tree can hold at a key
NodeStates ==
    {NoEntry} \cup {MakeNode(c, hc) : c \in {EmptyTensor, <<1>>}, hc \in BOOLEAN}

\* the scalars offered to gaxpy_inplace
Scalars == {<<1, 1>>, <<2, 3>>}

\* FunctionImpl::gaxpy_inplace(alpha, other, beta, fence) is called
gaxpy_call ==
    /\ gpc = "idle"
    /\ gpc' = "run"
    /\ UNCHANGED <<gdest, gother, gargs, gold, gsent, gpend, rmivars, treevars, opvars, mulvars, extvars>>

\* same process map: do_gaxpy_inplace::operator() run by for_each on one
\* entry of other.coeffs
do_gaxpy_inplace(k) ==
    /\ gpc = "run" /\ gargs.same
    /\ gother[k].exists /\ k \notin gsent
    /\ gsent' = gsent \cup {k}
    /\ gpend' = gpend \cup {k}
    /\ UNCHANGED <<gdest, gother, gargs, gold, gpc, rmivars, treevars, opvars, mulvars, extvars>>

\* different process maps: one iteration of the loop over other.coeffs
gaxpy_send(k) ==
    /\ gpc = "run" /\ ~gargs.same
    /\ gother[k].exists /\ k \notin gsent
    /\ gsent' = gsent \cup {k}
    /\ gpend' = gpend \cup {k}
    /\ UNCHANGED <<gdest, gother, gargs, gold, gpc, rmivars, treevars, opvars, mulvars, extvars>>

\* coeffs.send(key, &nodeT::gaxpy_inplace, alpha, other_node, beta) runs on
\* the owner of key
gaxpy_run(k) ==
    /\ k \in gpend
    /\ gdest' = [gdest EXCEPT ![k] = gaxpy_inplace(EntryFor(k), gargs.alpha, gother[k], gargs.beta)]
    /\ gpend' = gpend \ {k}
    /\ UNCHANGED <<gother, gargs, gold, gsent, gpc, rmivars, treevars, opvars, mulvars, extvars>>

\* if (fence) world.gop.fence(): every entry of other was visited and every
\* operation sent has run
gaxpy_fence ==
    /\ gpc = "run"
    /\ \A k \in GKeys : gother[k].exists => k \in gsent
    /\ gpend = {}
    /\ gpc' = "fenced"
    /\ UNCHANGED <<gdest, gother, gargs, gold, gsent, gpend, rmivars, treevars, opvars, mulvars, extvars>>

\* ------------------------------------------------------------------------
\* FunctionImpl::gaxpy(alpha, left, beta, right, fence): result += alpha*left
\* + beta*right, one node operation per entry of left and per entry of right
\* ------------------------------------------------------------------------
\* (variant: the entries of right are sent with alpha as well)
ScalarAlways(side, args) == args.alpha

\* the last argument of the send: alpha in the loop over left, beta in the
\* loop over right
ScalarFor(side, args) == IF side = "left" THEN args.alpha ELSE args.beta

\* the tree a loop runs over
OperandOf(side) == IF side = "left" THEN xleft ELSE xright

\* gaxpy is called; the loop over left.coeffs begins
xgaxpy_call ==
    /\ xpc = "idle"
    /\ xpc' = "left"
    /\ UNCHANGED <<xres, xleft, xright, xargs, xold, xsent, xpend, xlog, earlyvars, rfvars, mvvars>>

\* one iteration of a loop: coeffs.send(key, &nodeT::gaxpy_inplace, 1.0,
\* other_node, alpha) for left, (..., beta) for right
xgaxpy_send(side, k) ==
    /\ xpc = side
    /\ OperandOf(side)[k].exists /\ <<side, k>> \notin xsent
    /\ xsent' = xsent \cup {<<side, k>>}
    /\ xpend' = xpend \cup {<<side, k>>}
    /\ UNCHANGED <<xres, xleft, xright, xargs, xold, xlog, xpc, earlyvars, rfvars, mvvars>>

\* the loop over left.coeffs has visited every entry; the loop over
\* right.coeffs begins
xgaxpy_next_loop ==
    /\ xpc = "left"
    /\ \A k \in GKeys : xleft[k].exists => <<"left", k>> \in xsent
    /\ xpc' = "right"
    /\ UNCHANGED <<xres, xleft, xright, xargs, xold, xsent, xpend, xlog, earlyvars, rfvars, mvvars>>

\* a node operation sent runs on the owner of its key, on the entry of the
\* key (default constructed when the key has no entry yet)
xgaxpy_run(side, k) ==
    /\ <<side, k>> \in xpend
    /\ xres' = [xres EXCEPT ![k] =
                   gaxpy_inplace(IF xres[k].exists THEN xres[k] ELSE MakeNode(EmptyTensor, FALSE),
                                 1, OperandOf(side)[k], ScalarFor(side, xargs))]
    /\ xpend' = xpend \ {<<side, k>>}
    /\ xlog' = Append(xlog, <<side, k>>)
    /\ UNCHANGED <<xleft, xright, xargs, xold, xsent, xpc, earlyvars, rfvars, mvvars>>

\* if (fence) world.gop.fence(): both loops are over and every operation
\* sent has run
xgaxpy_fence ==
    /\ xpc = "right"
    /\ \A k \in GKeys : xright[k].exists => <<"right", k>> \in xsent
    /\ xpend = {}
    /\ xpc' = "fenced"
    /\ UNCHANGED <<xres, xleft, xright, xargs, xold, xsent, xpend, xlog, earlyvars, rfvars, mvvars>>

\* no gaxpy activity: empty trees
GaxIdle ==
    /\ gdest = [k \in GKeys |-> NoEntry]
    /\ gother = [k \in GKeys |-> NoEntry]
    /\ gargs = [alpha |-> 1, beta |-> 1, same |-> TRUE]
    /\ gold = [k \in GKeys |-> NoEntry]
    /\ gsent = {}
    /\ gpend = {}
    /\ gpc = "idle"

\* ========================================================================
\* Member functions of FunctionImpl that act on one node or one key.  Each
\* is applied once, to arguments drawn from small sets; trees have one
\* dimension (NDIM = 1) and one coefficient per block (k = 1).
\* ========================================================================
\* values of a single coefficient
Values == 0..MaxVal

\* levels of the keys offered as arguments
Levels == 0..MaxLevel

\* cdata.s0: the scaling block of a (2k)^d tensor; the rest is the wavelet block
S0 == 1

\* child_patch(child): the block of the 2k tensor that holds the scaling
\* coefficients of child number c (0 or 1)
child_patch(c) == c + 1

\* FunctionImpl::filter for k = 1: the two-scale matrix hgT sends (s0, s1) to
\* the sum and the difference (kept without the factor 1/sqrt(2))
filter(d) == <<d[1] + d[2], d[1] - d[2]>>

\* (variant: the scaling block is zeroed at the root as well)
ZeroAtEveryKey(level, nonstandard) == ~nonstandard

\* if (key.level() > 0 && !nonstandard) d(cdata.s0) = 0.0;
ZeroScaling(level, nonstandard) == level > 0 /\ ~nonstandard

\* FunctionImpl::compress_op(key, v, nonstandard): v[c] is the block returned
\* for child c.  Gives the node stored by coeffs.replace and the value returned.
compress_op(level, v, nonstandard) ==
    LET d0 == [i \in 1..2 |-> v[i - 1][1]]
        d1 == filter(d0)
        ret == <<d1[S0]>>
        d2 == IF ZeroScaling(level, nonstandard) THEN [d1 EXCEPT ![S0] = 0] ELSE d1
    IN  [node |-> MakeNode(d2, TRUE), ret |-> ret]

ApplyCompressOp ==
    \E level \in Levels : \E a, b \in Values : \E nonstandard \in BOOLEAN :
        LET v == [c \in 0..1 |-> IF c = 0 THEN <<a>> ELSE <<b>>]
        IN  /\ op = "none"
            /\ op' = "compress_op"
            /\ opin' = [level |-> level, v |-> v, nonstandard |-> nonstandard]
            /\ opout' = compress_op(level, v, nonstandard)
            /\ UNCHANGED <<rmivars, treevars, gaxvars, mulvars, extvars>>

\* FunctionImpl::unfilter for k = 1: the two-scale matrix hg sends (s, d) to
\* the scaling coefficients of the two children (kept without the factor
\* 1/sqrt(2))
unfilter(d) == <<d[1] + d[2], d[1] - d[2]>>

\* FunctionDefaults::get_cell_min_width() for the unit cell
CellMinWidth == 1

\* the truncate_mode values truncate_tol accepts
TruncateModes == {0, 1, 2}

\* x > truncate_tol(tol, key) for a key of the given level, with
\*   truncate_tol = tol                              (truncate_mode 0)
\*                = tol*min(1, 0.5^level * L)        (truncate_mode 1)
\*                = tol*min(1, 0.25^level * L*L)     (truncate_mode 2)
\* The comparison is made on integers: both sides are multiplied by 2^level
\* (4^level) where the minimum is not 1.
above_truncate_tol(x, tol, level, mode) ==
    LET L == CellMinWidth
    IN  IF mode = 0 THEN x > tol
        ELSE IF mode = 1
        THEN IF L >= 2^level THEN x > tol ELSE x * 2^level > tol * L
        ELSE IF L * L >= 4^level THEN x > tol ELSE x * 4^level > tol * L * L

\* FunctionImpl::autorefine_square_test: lo and hi are the norms tnorm gives
autorefine_square_test(lo, hi, thresh, level, mode) ==
    above_truncate_tol(2 * lo * hi + hi * hi, thresh, level, mode)

\* (variant: the level limit is not looked at)
RefinesAtAnyLevel(node, level, max_refine_level, test) == has_coeff(node) /\ test

\* if (node.has_coeff() && key.level() < max_refine_level && autorefine_square_test(...))
MustRefine(node, level, max_refine_level, test) ==
    has_coeff(node) /\ level < max_refine_level /\ test

\* FunctionImpl::refine_op(key) on the entry of key (node) and the entries of
\* its two children (child)
refine_op(t, level, max_refine_level, test) ==
    IF MustRefine(t.node, level, max_refine_level, test)
    THEN LET d == unfilter(<<t.node.coeff[1], 0>>)
         IN  [node |-> [t.node EXCEPT !.coeff = EmptyTensor, !.has_children = TRUE],
              child |-> [c \in 0..1 |-> MakeNode(<<d[child_patch(c)]>>, FALSE)]]
    ELSE t

\* the entries a child key can have
ChildStates == {NoEntry, MakeNode(<<1>>, FALSE), MakeNode(EmptyTensor, TRUE)}

ApplyRefineOp ==
    \E v \in Values \cup {-1} : \E hc \in BOOLEAN : \E c0, c1 \in ChildStates :
    \E level \in Levels : \E mrl \in {1, MaxLevel} :
    \E lo, hi \in 0..1 : \E mode \in TruncateModes :
        LET node == MakeNode(IF v = -1 THEN EmptyTensor ELSE <<v>>, hc)
            t == [node |-> node, child |-> [c \in 0..1 |-> IF c = 0 THEN c0 ELSE c1]]
            test == autorefine_square_test(lo, hi, 1, level, mode)
        IN  /\ op = "none"
            /\ op' = "refine_op"
            /\ opin' = [t |-> t, level |-> level, max_refine_level |-> mrl, test |-> test]
            /\ opout' = refine_op(t, level, mrl, test)
            /\ UNCHANGED <<rmivars, treevars, gaxvars, mulvars, extvars>>

\* ------------------------------------------------------------------------
\* FunctionImpl::apply: one pass over the entries of f.coeffs
\* ------------------------------------------------------------------------
\* the wavelet orders a tree can have when its tensors hold one or two values
Orders_k == {1, 2}

\* node.coeff().dim[0]
dim0(node) == Len(node.coeff)

\* (variant: the doleaves flag and the order of the tensor are not looked at)
SchedulesAnyCoeff(node, k, doleaves) == has_coeff(node)

\* if (node.has_coeff()) if (node.coeff().dim[0] != k || op.doleaves)
SchedulesDoApply(node, k, doleaves) ==
    has_coeff(node) /\ (dim0(node) # k \/ doleaves)

\* the loop of apply over the keys ks still to visit: the do_apply tasks
\* handed to the task queue, in the order of the iteration
RECURSIVE apply_loop(_, _, _, _)
apply_loop(f, ks, k, doleaves) ==
    IF ks = {} THEN <<>>
    ELSE LET key == Min(ks)
             rest == apply_loop(f, ks \ {key}, k, doleaves)
         IN  IF SchedulesDoApply(f[key], k, doleaves)
             THEN <<[key |-> key, c |-> f[key].coeff]>> \o rest
             ELSE rest

\* FunctionImpl::apply(op, f, fence): the entries of f.coeffs are those keys
\* whose entry is not NoEntry
apply(f, k, doleaves) ==
    apply_loop(f, {key \in DOMAIN f : f[key] # NoEntry}, k, doleaves)

\* the entries a key of f can have: none, a node without coefficients, a node
\* with k = 1 values, a node with 2 values
ApplyNodeStates ==
    {NoEntry, MakeNode(EmptyTensor, TRUE), MakeNode(EmptyTensor, FALSE),
     MakeNode(<<1>>, FALSE), MakeNode(<<1>>, TRUE),
     MakeNode(<<1, 1>>, TRUE), MakeNode(<<1, 1>>, FALSE)}

ApplyApply ==
    \E f \in [GKeys -> ApplyNodeStates] : \E k \in Orders_k :
    \E doleaves \in BOOLEAN :
        /\ op = "none"
        /\ op' = "apply"
        /\ opin' = [f |-> f, k |-> k, doleaves |-> doleaves]
        /\ opout' = apply(f, k, doleaves)
        /\ UNCHANGED <<rmivars, treevars, gaxvars, mulvars, extvars>>

\* ------------------------------------------------------------------------
\* FunctionImpl::neighbor and FunctionImpl::do_apply, in NDIM = 2 dimensions
\* ------------------------------------------------------------------------
NDIM == 2
Axes == 1..NDIM

\* boundary condition matrices bc(i, 0..1): 0 is zero, 1 is periodic; row i
\* is <<bc(i,0), bc(i,1)>>
BCs == [Axes -> [1..2 -> {0, 1}]]

\* the same condition on both sides of every axis
UniformBCs == {b \in BCs : \A i \in Axes : b[i][1] = b[i][2]}

\* keyT: level n and translation l, 0 <= l[i] < 2^n
KeysAt(n) == {[n |-> n, l |-> l] : l \in [Axes -> 0..(2^n - 1)]}

\* keyT::invalid()
InvalidKey == [n |-> -1, l |-> [i \in Axes |-> 0]]

\* Key::is_valid
is_valid(key) == key.n >= 0

\* the displacements an operator can list: translations of at most
\* DispRange cells along each axis
Disps == [Axes -> (0 - DispRange)..DispRange]

\* Key::distsq: squared distance between two boxes, 0 when they touch
distsq(d) ==
    LET gap(x) == IF x > 0 THEN x - 1 ELSE IF x < 0 THEN (0 - x) - 1 ELSE 0
        RECURSIVE sum(_)
        sum(i) == IF i = 0 THEN 0 ELSE gap(d[i]) * gap(d[i]) + sum(i - 1)
    IN  sum(NDIM)

\* (variant: only the lower face of the volume is tested)
LeavesBelow(n, x) == x < 0

\* the boundary condition one coordinate meets: bc(i,0) below the volume,
\* bc(i,1) above it
LeavesVolume(n, x) == x < 0 \/ x >= 2^n
BcMet(bci, x) == IF x < 0 THEN bci[1] ELSE bci[2]

\* FunctionImpl::neighbor(key, disp): a coordinate that leaves the volume
\* is mapped back into it under periodic BC, and makes the key invalid
\* under zero BC
neighbor(key, d, bc) ==
    LET x(i) == key.l[i] + d[i]
    IN  IF \E i \in Axes : LeavesVolume(key.n, x(i)) /\ BcMet(bc[i], x(i)) = 0
        THEN InvalidKey
        ELSE [n |-> key.n, l |-> [i \in Axes |-> x(i) % 2^(key.n)]]

\* FunctionImpl::neighbor(key, axis, step)
neighbor_axis(key, axis, step, bc) ==
    neighbor(key, [i \in Axes |-> IF i = axis THEN step ELSE 0], bc)

ApplyNeighbor ==
    \E n \in Levels : \E key \in KeysAt(n) : \E bc \in BCs :
    \E axis \in Axes : \E step \in {-1, 1} :
        /\ op = "none"
        /\ op' = "neighbor"
        /\ opin' = [key |-> key, axis |-> axis, step |-> step, bc |-> bc]
        /\ opout' = LET there == neighbor_axis(key, axis, step, bc)
                    IN  [there |-> there,
                         back |-> IF is_valid(there)
                                  THEN neighbor_axis(there, axis, 0 - step, bc)
                                  ELSE InvalidKey]
        /\ UNCHANGED <<rmivars, treevars, gaxvars, mulvars, extvars>>

\* const long lmax = 1L << (key.level()-1): at level 0 the shift count is
\* negative and the value is whatever the build gives; the values below
\* stand for a count taken modulo the width (a negative lmax below every
\* displacement), for 0 and for 1
LmaxValues(n) == IF n >= 1 THEN {2^(n - 1)} ELSE {0 - 2^MaxLevel - DispRange, 0, 1}

\* doit after the loop over the axes: the loop leaves at the first axis with
\* bc(i,0) == 1, so only that axis is compared with lmax
doit(d, bc, lmax) ==
    LET periodic == {i \in Axes : bc[i][1] = 1}
    IN  IF periodic = {} THEN TRUE
        ELSE LET i == Min(periodic)
             IN  ~(d[i] > lmax \/ d[i] <= 0 - lmax)

\* fac = 3.0
fac == 3

\* cnorm*opnorm > tol/fac with tol = truncate_tol(thresh, key)
PassesScreen(cnorm, opnorm, thresh, n, mode) ==
    above_truncate_tol(fac * cnorm * opnorm, thresh, n, mode)

\* one turn of the loop of do_apply on the displacement d: what happens to
\* d and whether the loop goes on
do_apply_body(key, cnorm, d, opnorm, bc, lmax, thresh, mode) ==
    LET dest == neighbor(key, d, bc)
    IN  IF ~doit(d, bc, lmax)
        THEN [d |-> d, dest |-> dest, opnorm |-> opnorm, did |-> "capped", goon |-> FALSE]
        ELSE IF ~is_valid(dest)
        THEN [d |-> d, dest |-> dest, opnorm |-> opnorm, did |-> "invalid", goon |-> TRUE]
        ELSE IF PassesScreen(cnorm, opnorm, thresh, key.n, mode)
        THEN [d |-> d, dest |-> dest, opnorm |-> opnorm, did |-> "task", goon |-> TRUE]
        ELSE IF distsq(d) >= 1
        THEN [d |-> d, dest |-> dest, opnorm |-> opnorm, did |-> "screened", goon |-> FALSE]
        ELSE [d |-> d, dest |-> dest, opnorm |-> opnorm, did |-> "screened", goon |-> TRUE]

\* FunctionImpl::do_apply: the loop over disp from position i on; disp[i] is
\* a displacement with the operator's norm for it
RECURSIVE do_apply_loop(_, _, _, _, _, _, _, _)
do_apply_loop(key, cnorm, disp, i, bc, lmax, thresh, mode) ==
    IF i > Len(disp) THEN <<>>
    ELSE LET turn == do_apply_body(key, cnorm, disp[i].d, disp[i].opnorm,
                                   bc, lmax, thresh, mode)
         IN  IF turn.goon
             THEN <<turn>> \o do_apply_loop(key, cnorm, disp, i + 1, bc, lmax, thresh, mode)
             ELSE <<turn>>

do_apply(key, cnorm, disp, bc, lmax, thresh, mode) ==
    do_apply_loop(key, cnorm, disp, 1, bc, lmax, thresh, mode)

\* the displacement lists get_disp can give, up to MaxDisp entries
DispEntries == [d : Disps, opnorm : {0, 1}]
DispLists == UNION {[1..m -> DispEntries] : m \in 0..MaxDisp}

ApplyDoApply ==
    /\ op = "none"
    /\ \E n \in Levels : \E key \in KeysAt(n) : \E bc \in UniformBCs :
       \E lmax \in LmaxValues(n) : \E cnorm \in {0, 1} : \E disp \in DispLists :
        /\ op' = "do_apply"
        /\ opin' = [key |-> key, cnorm |-> cnorm, disp |-> disp, bc |-> bc,
                    lmax |-> lmax]
        /\ opout' = do_apply(key, cnorm, disp, bc, lmax, 1, 0)
    /\ UNCHANGED <<rmivars, treevars, gaxvars, mulvars, extvars>>

\* ------------------------------------------------------------------------
\* FunctionImpl::FunctionImpl(factory) and FunctionImpl::truncate_tol
\* ------------------------------------------------------------------------
\* the options of a factory: k and truncate_mode one step beyond their
\* valid ranges on both sides
FactoryOptions ==
    [k : 0..(MAXK + 1), truncate_mode : -1..3, initial_level : Levels,
     empty : BOOLEAN, refine : BOOLEAN, functor : BOOLEAN, fence : BOOLEAN]

\* MADNESS_ASSERT(k>0 && k<=MAXK), in FunctionCommonData::get(k) and in the
\* body of the constructor
ValidOrder(k) == k > 0 /\ k <= MAXK

\* FunctionImpl(const FunctionFactory& factory): the assertion on k stops
\* the construction; nothing in it looks at truncate_mode
FunctionImpl(factory) ==
    IF ~ValidOrder(factory.k)
    THEN [status |-> "failed", what |-> "MADNESS_ASSERT(k>0 && k<=MAXK)"]
    ELSE LET level0 == IF factory.refine
                       THEN (IF factory.initial_level - 1 > 0
                             THEN factory.initial_level - 1 ELSE 0)
                       ELSE factory.initial_level
         IN  [status |-> "constructed",
              k |-> factory.k,
              truncate_mode |-> factory.truncate_mode,
              initial_level |-> IF ~factory.empty /\ ~factory.functor THEN 1 ELSE level0,
              nonstandard |-> FALSE,
              compressed |-> FALSE,
              coeffs |-> IF factory.empty THEN "none"
                         ELSE IF factory.functor THEN "project_refine_op"
                         ELSE "zero",
              fenced |-> factory.fence /\ factory.functor]

ApplyFunctionImpl ==
    /\ op = "none"
    /\ \E factory \in FactoryOptions :
        /\ op' = "FunctionImpl"
        /\ opin' = factory
        /\ opout' = FunctionImpl(factory)
    /\ UNCHANGED <<rmivars, treevars, gaxvars, mulvars, extvars>>

\* FunctionImpl::truncate_tol(tol, key): the threshold as the fraction
\* num/den, or the exception of the last branch
truncate_tol(tol, level, truncate_mode) ==
    LET L == CellMinWidth
    IN  IF truncate_mode = 0 THEN [status |-> "value", num |-> tol, den |-> 1]
        ELSE IF truncate_mode = 1
        THEN IF L >= 2^level THEN [status |-> "value", num |-> tol, den |-> 1]
             ELSE [status |-> "value", num |-> tol * L, den |-> 2^level]
        ELSE IF truncate_mode = 2
        THEN IF L * L >= 4^level THEN [status |-> "value", num |-> tol, den |-> 1]
             ELSE [status |-> "value", num |-> tol * L * L, den |-> 4^level]
        ELSE [status |-> "exception", num |-> 0, den |-> 1]

\* an algorithm (mulXXa, autorefine_square_test, do_apply) asks a
\* constructed tree for its threshold at a key
ApplyTruncateTol ==
    /\ op = "FunctionImpl"
    /\ opout.status = "constructed"
    /\ \E level \in Levels : \E tol \in 1..MaxVal :
        /\ op' = "truncate_tol"
        /\ opin' = [impl |-> opout, tol |-> tol, level |-> level]
        /\ opout' = truncate_tol(tol, level, opout.truncate_mode)
    /\ UNCHANGED <<rmivars, treevars, gaxvars, mulvars, extvars>>

\* ------------------------------------------------------------------------
\* SimpleMap::owner
\* ------------------------------------------------------------------------
\* hash(key): an unsigned value that depends on the key alone; seed picks
\* one hash function among several
hash(key, seed) == seed + 5 * key.n + 3 * key.l[1] + 7 * key.l[2]

\* Key::parent(generation): the ancestor generation levels up
parent(key, generation) ==
    [n |-> key.n - generation, l |-> [i \in Axes |-> key.l[i] \div 2^generation]]

\* the children of a key
ChildrenOf(key) ==
    {[n |-> key.n + 1, l |-> [i \in Axes |-> 2 * key.l[i] + b[i]]] : b \in [Axes -> {0, 1}]}

\* (variant: the ancestor is taken n generations up)
GenerationsFixed(level, n) == n

\* key.level()-n
Generations(level, n) == level - n

\* SimpleMap::owner(key) of a map built with nproc and n
owner(key, nproc, n, seed) ==
    IF key.n = 0 THEN 0
    ELSE IF key.n <= n THEN hash(key, seed) % nproc
    ELSE hash(parent(key, Generations(key.n, n)), seed) % nproc

ApplyOwner ==
    /\ op = "none"
    /\ \E level \in Levels : \E key \in KeysAt(level) : \E nproc \in 1..MaxProcs :
       \E n \in 0..MaxLevel : \E seed \in 0..2 :
        /\ op' = "owner"
        /\ opin' = [key |-> key, nproc |-> nproc, n |-> n, seed |-> seed]
        /\ opout' = [owner |-> owner(key, nproc, n, seed),
                     child |-> [c \in ChildrenOf(key) |-> owner(c, nproc, n, seed)]]
    /\ UNCHANGED <<rmivars, treevars, gaxvars, mulvars, extvars>>

\* ------------------------------------------------------------------------
\* RMI::RMI: the sizes read from MAD_BUFFER_SIZE and MAD_RECV_BUFFERS
\* ------------------------------------------------------------------------
ALIGNMENT == 64
DEFAULT_NRECV == 2

\* a std::size_t is kept as SizeLimbs limbs of LimbBits bits, lowest first
LimbBits == 16
Limb == 2^LimbBits
SizeLimbs == (SizeofSizeT * 8) \div LimbBits

\* the std::size_t of value n, for 0 <= n < 2^31
ToSize(n) == [i \in 1..SizeLimbs |-> IF i = 1 THEN n % Limb ELSE IF i = 2 THEN n \div Limb ELSE 0]

SizeMax == [i \in 1..SizeLimbs |-> Limb - 1]

\* v * 2^s modulo 2^64, for a shift whose part below a limb is under 15 bits
ShiftLeft(v, s) ==
    LET b == s % LimbBits
        whole == s \div LimbBits
        bits == [i \in 1..SizeLimbs |->
                    ((v[i] * 2^b) % Limb) + (IF i > 1 THEN (v[i-1] * 2^b) \div Limb ELSE 0)]
    IN  [i \in 1..SizeLimbs |-> IF i > whole THEN bits[i - whole] ELSE 0]

\* the carry into limb i of v + d
RECURSIVE CarryInto(_, _, _)
CarryInto(v, d, i) ==
    IF i = 1 THEN d ELSE (v[i-1] + CarryInto(v, d, i - 1)) \div Limb

\* v + d modulo 2^64, for 0 <= d < Limb
AddSize(v, d) == [i \in 1..SizeLimbs |-> (v[i] + CarryInto(v, d, i)) % Limb]

\* 2^64 - v, for v # 0
NegSize(v) == AddSize([i \in 1..SizeLimbs |-> Limb - 1 - v[i]], 1)

\* max_msg_len_ < 1024
SizeBelow(v, n) == (\A i \in 2..SizeLimbs : v[i] = 0) /\ v[1] < n

\* max_msg_len_ % ALIGNMENT: ALIGNMENT divides 2^LimbBits
SizeMod(v, m) == v[1] % m

\* the multiplier of a unit, as a power of two; an unknown unit is bytes
UnitShift(unit) ==
    IF unit \in {"KB", "kB"} THEN 10
    ELSE IF unit = "MB" THEN 20
    ELSE IF unit = "GB" THEN 30
    ELSE 0

\* what the conversion of a double to std::size_t yields where the value
\* is outside the range of std::size_t, which is undefined: a build
\* either wraps or saturates
Conversions == {"wrap", "saturate"}

\* values of MAD_BUFFER_SIZE: unset, no number, a number beyond every
\* std::size_t, or a signed whole number and a unit
BufferSizes ==
    {[set |-> FALSE], [set |-> TRUE, kind |-> "text"], [set |-> TRUE, kind |-> "huge"]}
    \cup {[set |-> TRUE, kind |-> "number", neg |-> neg, n |-> n, unit |-> unit] :
            neg \in BOOLEAN, n \in {0, 1, 3, 5, 64, 1023, 1024, 1025, 1536},
            unit \in {"", "KB", "kB", "MB", "GB", "TB"}}

\* values of MAD_RECV_BUFFERS: unset, no number, or a whole number
RecvBuffers ==
    {[set |-> FALSE], [set |-> TRUE, kind |-> "text"]}
    \cup {[set |-> TRUE, kind |-> "number", n |-> n] : n \in -1..(DEFAULT_NRECV + 2)}

\* max_msg_len_ = memory;
SizeOfDouble(buf, conv) ==
    IF buf.kind = "text" THEN ToSize(0)
    ELSE IF buf.kind = "huge"
         THEN (IF conv = "saturate" THEN SizeMax ELSE ToSize(0))
    ELSE IF buf.n = 0 THEN ToSize(0)
    ELSE IF buf.neg
         THEN (IF conv = "saturate" THEN ToSize(0) ELSE NegSize(ToSize(buf.n)))
    ELSE ShiftLeft(ToSize(buf.n), UnitShift(buf.unit))

\* if(unaligned != 0) max_msg_len_ += ALIGNMENT - unaligned;
RoundUp(len) ==
    LET unaligned == SizeMod(len, ALIGNMENT)
    IN  IF unaligned # 0 THEN AddSize(len, ALIGNMENT - unaligned) ELSE len

\* RMI::RMI()
RMI(buf, recv, conv) ==
    LET len0 == ToSize(DEFAULT_MAX_MSG_LEN)
        len1 == IF buf.set
                THEN LET memory == SizeOfDouble(buf, conv)
                     IN  RoundUp(IF SizeBelow(memory, 1024) THEN ToSize(DEFAULT_MAX_MSG_LEN)
                                 ELSE memory)
                ELSE len0
        asked == IF recv.kind = "number" THEN recv.n ELSE 0
        nrecv == IF recv.set
                 THEN (IF asked < DEFAULT_NRECV THEN DEFAULT_NRECV ELSE asked)
                 ELSE DEFAULT_NRECV
        maxq == IF recv.set THEN nrecv + 1 ELSE DEFAULT_NRECV + 1
    IN  [max_msg_len_ |-> len1, nrecv_ |-> nrecv, maxq_ |-> maxq]

ApplyRMI ==
    /\ op = "none"
    /\ \E buf \in BufferSizes : \E recv \in RecvBuffers : \E conv \in Conversions :
        /\ op' = "RMI"
        /\ opin' = [buf |-> buf, recv |-> recv, conv |-> conv]
        /\ opout' = RMI(buf, recv, conv)
    /\ UNCHANGED <<rmivars, treevars, gaxvars, mulvars, extvars>>

\* payload lengths handed to isend on the object just constructed
EntryLengths == {0, HEADER_LEN - 1, HEADER_LEN, 2 * HEADER_LEN}

\* RMI::private_isend up to its first effect, for a payload of nbyte bytes
\* on an object whose max_msg_len_ is maxlen:
\*   nbyte > max_msg_len_: comm.Irecv for the ACK is posted and the control
\*                         record is sent by private_isend itself
\*   nbyte < HEADER_LEN:   MADNESS_EXCEPTION
\*   else:                 lock(), the counter is stamped if ordered, the
\*                         statistics are counted, comm.Isend
private_isend(nbyte, attr, maxlen) ==
    IF SizeBelow(maxlen, nbyte)
    THEN [raised |-> FALSE, submitted |-> {"Irecv RMI_HUGE_ACK_TAG"},
          locked |-> FALSE, stamped |-> FALSE, nmsg_sent |-> 0]
    ELSE IF nbyte < HEADER_LEN
    THEN [raised |-> TRUE, submitted |-> {},
          locked |-> FALSE, stamped |-> FALSE, nmsg_sent |-> 0]
    ELSE [raised |-> FALSE, submitted |-> {"Isend RMI_TAG"},
          locked |-> TRUE, stamped |-> is_ordered(attr), nmsg_sent |-> 1]

\* isend on an RMI constructed under the given environment
ApplyIsend ==
    /\ op = "none"
    /\ \E buf \in BufferSizes : \E conv \in Conversions :
       \E nbyte \in EntryLengths : \E attr \in {ATTR_ORDERED, ATTR_UNORDERED} :
        /\ op' = "isend"
        /\ opin' = [buf |-> buf, conv |-> conv, nbyte |-> nbyte, attr |-> attr]
        /\ opout' = private_isend(nbyte, Attr(attr, 0), RMI(buf, [set |-> FALSE], conv).max_msg_len_)
    /\ UNCHANGED <<rmivars, treevars, gaxvars, mulvars, extvars>>

\* ------------------------------------------------------------------------
\* FunctionImpl::store, FunctionImpl::load and FunctionNode::serialize
\* ------------------------------------------------------------------------
\* stands for the 1e300 a constructor gives _norm_tree: above every norm
NormTreeDefault == 1000

\* FunctionNode(): no coefficients, _norm_tree(1e300), no children
DefaultNode == [coeff |-> EmptyTensor, has_children |-> FALSE, norm_tree |-> NormTreeDefault]

\* the nodes a stored tree can hold, before and after norm_tree()
StoredNodes ==
    {[coeff |-> c, has_children |-> h, norm_tree |-> t] :
        c \in {EmptyTensor, <<1>>}, h \in BOOLEAN, t \in {NormTreeDefault, 2}}

\* Tensor<Q>(Tensor<T>): every element converted, here a real number to a
\* complex one
convert_coeff(c) == [i \in DOMAIN c |-> [re |-> c[i], im |-> 0]]

\* FunctionNode(const Tensor<T>& coeff, bool has_children): _norm_tree(1e300)
FunctionNodeOf(coeff, has_children) ==
    [coeff |-> coeff, has_children |-> has_children, norm_tree |-> NormTreeDefault]

\* FunctionNode::convert<Q>:
\* return FunctionNode<Q,NDIM>(copy(coeff()),_has_children);
convert(node) == FunctionNodeOf(convert_coeff(node.coeff), node.has_children)

\* the nodes convert is called on, before and after norm_tree()
ConvertNodes ==
    {[coeff |-> c, has_children |-> h, norm_tree |-> t] :
        c \in {EmptyTensor} \cup [1..1 -> 0..MaxVal] \cup [1..2 -> 0..MaxVal],
        h \in BOOLEAN, t \in {NormTreeDefault} \cup 0..MaxVal}

ApplyConvert ==
    /\ op = "none"
    /\ \E node \in ConvertNodes :
        /\ op' = "convert"
        /\ opin' = node
        /\ opout' = convert(node)
    /\ UNCHANGED <<rmivars, treevars, gaxvars, mulvars, extvars>>

\* FunctionNode::serialize into an output archive:
\* ar & coeff() & _has_children & double(_norm_tree)
node_store(node) == <<node.coeff, node.has_children, node.norm_tree>>

\* FunctionNode::serialize from an input archive, on a default-constructed
\* node: coeff() and _has_children are references to the members; the third
\* value is read into the temporary double(_norm_tree), not into _norm_tree
node_load(ar) ==
    [DefaultNode EXCEPT !.coeff = ar[1], !.has_children = ar[2]]

\* ar & coeffs, out: the entries of the container, each key with its node
container_store(c) ==
    [key \in {k \in DOMAIN c : c[k] # NoEntry} |-> node_store(c[key])]

\* ar & coeffs, in: the container holds the entries read and no others
container_load(c, ar) ==
    [key \in DOMAIN c |-> IF key \in DOMAIN ar THEN node_load(ar[key]) ELSE NoEntry]

\* FunctionImpl::store: the values in the order they are written
store(impl) ==
    <<impl.k, impl.thresh, impl.initial_level, impl.max_refine_level,
      impl.truncate_mode, impl.autorefine, impl.truncate_on_project,
      impl.nonstandard, impl.compressed, impl.bc, container_store(impl.coeffs)>>

\* FunctionImpl::load: kk is read and compared with k, then the fields are
\* read in order
load(impl, ar) ==
    IF ar[1] # impl.k
    THEN [status |-> "failed", impl |-> impl]
    ELSE [status |-> "loaded",
          impl |-> [impl EXCEPT !.thresh = ar[2],
                                !.initial_level = ar[3],
                                !.max_refine_level = ar[4],
                                !.truncate_mode = ar[5],
                                !.autorefine = ar[6],
                                !.truncate_on_project = ar[7],
                                !.nonstandard = ar[8],
                                !.compressed = ar[9],
                                !.bc = ar[10],
                                !.coeffs = container_load(impl.coeffs, ar[11])]]

\* the trees that are stored
StoredImpls ==
    [k : 1..2, thresh : 1..2, initial_level : 0..1, max_refine_level : 1..2,
     truncate_mode : {0, 2}, autorefine : BOOLEAN, truncate_on_project : BOOLEAN,
     nonstandard : BOOLEAN, compressed : BOOLEAN,
     bc : {[i \in Axes |-> <<0, 0>>], [i \in Axes |-> <<1, 1>>]},
     functor : {"f"},
     coeffs : [GKeys -> {NoEntry, [coeff |-> <<1>>, has_children |-> FALSE, norm_tree |-> NormTreeDefault],
                                  [coeff |-> <<1>>, has_children |-> FALSE, norm_tree |-> 2],
                                  [coeff |-> EmptyTensor, has_children |-> TRUE, norm_tree |-> 2]}]]

\* the trees that are loaded into: fresh from an empty() factory, with or
\* without a functor, or holding a node from earlier use
LoadedInto ==
    {[k |-> k, thresh |-> 3, initial_level |-> 2, max_refine_level |-> 3,
      truncate_mode |-> 1, autorefine |-> FALSE, truncate_on_project |-> FALSE,
      nonstandard |-> FALSE, compressed |-> FALSE,
      bc |-> [i \in Axes |-> <<0, 1>>], functor |-> f,
      coeffs |-> [key \in GKeys |-> IF key = 1 THEN n ELSE NoEntry]] :
        k \in 1..2, f \in {"none", "g"}, n \in {NoEntry, DefaultNode}}

ApplyStoreLoad ==
    /\ op = "none"
    /\ \E from \in StoredImpls : \E into \in LoadedInto :
        /\ op' = "load"
        /\ opin' = [from |-> from, into |-> into, ar |-> store(from)]
        /\ opout' = load(into, store(from))
    /\ UNCHANGED <<rmivars, treevars, gaxvars, mulvars, extvars>>

\* ========================================================================
\* FunctionCommonData::get and FunctionCommonData::_initialize
\* ========================================================================
CommonOrders == 1..MAXK
CommonThreads == 1..NCommonThreads

\* a thread calls get(k); MADNESS_ASSERT(k>0 && k<=MAXK) passes
get_call(t) ==
    /\ cthr[t].pc = "idle"
    /\ \E k \in CommonOrders : cthr' = [cthr EXCEPT ![t] = [pc |-> "get", k |-> k]]
    /\ UNCHANGED <<data, ntvars, fivars, flagvars, latevars, rmivars, treevars, gaxvars, opvars, mulvars>>

\* data[k].initialized as get reads it
SeenInitialized(d) == d.initialized

\* if (!data[k].initialized) data[k]._initialize(k); return data[k];
get_test(t) ==
    LET k == cthr[t].k
    IN  /\ cthr[t].pc = "get"
        /\ IF SeenInitialized(data[k])
           THEN /\ cthr' = [cthr EXCEPT ![t].pc = "got"]
                /\ UNCHANGED data
           ELSE /\ cthr' = [cthr EXCEPT ![t].pc = "fields"]
                /\ data' = [data EXCEPT ![k].ninit = @ + 1]
        /\ UNCHANGED <<ntvars, fivars, flagvars, latevars, rmivars, treevars, gaxvars, opvars, mulvars>>

\* _initialize: k, npt, the slices, the vectors, zero_coeff and key0 are
\* assigned
initialize_fields(t) ==
    LET k == cthr[t].k
    IN  /\ cthr[t].pc = "fields"
        /\ data' = [data EXCEPT ![k].tables = "partial"]
        /\ cthr' = [cthr EXCEPT ![t].pc = "tables"]
        /\ UNCHANGED <<ntvars, fivars, flagvars, latevars, rmivars, treevars, gaxvars, opvars, mulvars>>

\* _initialize: _init_twoscale(); _init_quadrature(...); _make_dc_periodic();
initialize_tables(t) ==
    LET k == cthr[t].k
    IN  /\ cthr[t].pc = "tables"
        /\ data' = [data EXCEPT ![k].tables = "complete"]
        /\ cthr' = [cthr EXCEPT ![t].pc = "flag"]
        /\ UNCHANGED <<ntvars, fivars, flagvars, latevars, rmivars, treevars, gaxvars, opvars, mulvars>>

\* _initialize: initialized = true; then get returns data[k]
initialize_flag(t) ==
    LET k == cthr[t].k
    IN  /\ cthr[t].pc = "flag"
        /\ data' = [data EXCEPT ![k].initialized = TRUE]
        /\ cthr' = [cthr EXCEPT ![t].pc = "got"]
        /\ UNCHANGED <<ntvars, fivars, flagvars, latevars, rmivars, treevars, gaxvars, opvars, mulvars>>

\* ========================================================================
\* FunctionImpl::mulXX: multiplication by recursive descent
\* ========================================================================
\* keys of a binary tree numbered as in a heap, down to level MulDepth
MKeys == 1..(2^(MulDepth + 1) - 1)

\* KeyChildIterator: the children of a key
KeyChildren(k) == {2 * k, 2 * k + 1}

\* number of the child among its siblings (0 or 1)
ChildNumber(c) == c % 2

\* the reconstructed trees below key k, each given as the set of its leaves
\* <<key, coefficient>>
RECURSIVE LeafSets(_)
LeafSets(k) ==
    {{<<k, v>>} : v \in 0..1}
    \cup (IF KeyLevel(k) < MulDepth
          THEN {a \cup b : a \in LeafSets(2 * k), b \in LeafSets(2 * k + 1)}
          ELSE {})

\* the container of the tree with these leaves: a leaf carries its
\* coefficient, every ancestor of a leaf is an empty interior node
TreeOf(leaves) ==
    [k \in MKeys |->
        IF \E l \in leaves : l[1] = k
        THEN MakeNode(<<(CHOOSE l \in leaves : l[1] = k)[2]>>, FALSE)
        ELSE IF \E l \in leaves : k \in Ancestors(l[1])
        THEN MakeNode(EmptyTensor, TRUE)
        ELSE NoEntry]

\* square of Tensor::normf of a k = 1 tensor
NormSq(t) == t[1] * t[1]

\* square of get_norm_tree() as norm_tree leaves it: the norm of the
\* coefficients at and below the key
RECURSIVE NormTreeSq(_, _)
NormTreeSq(tree, k) ==
    IF has_coeff(tree[k]) THEN NormSq(tree[k].coeff)
    ELSE NormTreeSq(tree, 2 * k) + NormTreeSq(tree, 2 * k + 1)

\* (variant: a zero leaf is written whenever the norms are small)
ZeroLeafWithoutTol(tol, lsq, rsq) == lsq * rsq < 1

\* if (tol) { ... if (lnorm*rnorm < truncate_tol(tol, key)) ...  with
\* truncate_mode 0; the norms are compared by their squares
WritesZeroLeaf(tol, lsq, rsq) == tol # 0 /\ lsq * rsq < tol * tol

\* FunctionImpl::do_mul for k = 1: the product of the two values
do_mul(left, rcoeff) == MakeNode(<<left[1] * rcoeff[1]>>, FALSE)

\* mulXX(left, right, tol, fence) is called on the owner of the root
mulXX ==
    /\ mpc = "idle"
    /\ mpc' = "run"
    /\ mtasks' = {[key |-> Root, lc |-> EmptyTensor, rc |-> EmptyTensor]}
    /\ UNCHANGED <<mleft, mright, mtol, mresult, mlog, rmivars, treevars, gaxvars, opvars, extvars>>

\* (variant: no block is handed to the child)
ChildBlockNone(c, ss, child) == EmptyTensor

\* if (lc.size) ll = copy(lss(child_patch(child))): the block handed to
\* the child, empty when the parent has none
ChildBlock(c, ss, child) ==
    IF Len(c) > 0 THEN <<ss[child_patch(ChildNumber(child))]>> ELSE EmptyTensor

\* mulXXa(key, left, lcin, right, rcin, tol)
mulXXa(t) ==
    /\ t \in mtasks
    /\ LET key == t.key
           lfound == Len(t.lc) = 0
           rfound == Len(t.rc) = 0
           lc == IF lfound /\ has_coeff(mleft[key]) THEN mleft[key].coeff ELSE t.lc
           rc == IF rfound /\ has_coeff(mright[key]) THEN mright[key].coeff ELSE t.rc
           lsq == IF Len(lc) > 0 THEN NormSq(lc) ELSE NormTreeSq(mleft, key)
           rsq == IF Len(rc) > 0 THEN NormSq(rc) ELSE NormTreeSq(mright, key)
           lss == IF Len(lc) > 0 THEN unfilter(<<lc[1], 0>>) ELSE EmptyTensor
           rss == IF Len(rc) > 0 THEN unfilter(<<rc[1], 0>>) ELSE EmptyTensor
       IN  /\ lfound => mleft[key].exists
           /\ rfound => mright[key].exists
           /\ IF Len(rc) > 0 /\ Len(lc) > 0
              THEN /\ mresult' = [mresult EXCEPT ![key] = do_mul(lc, rc)]
                   /\ mlog' = [mlog EXCEPT ![key] = "do_mul"]
                   /\ mtasks' = mtasks \ {t}
              ELSE IF WritesZeroLeaf(mtol, lsq, rsq)
              THEN /\ mresult' = [mresult EXCEPT ![key] = MakeNode(<<0>>, FALSE)]
                   /\ mlog' = [mlog EXCEPT ![key] = "zero"]
                   /\ mtasks' = mtasks \ {t}
              ELSE /\ mresult' = [mresult EXCEPT ![key] = MakeNode(EmptyTensor, TRUE)]
                   /\ mlog' = [mlog EXCEPT ![key] = "interior"]
                   /\ mtasks' = (mtasks \ {t}) \cup
                         {[key |-> c,
                           lc |-> ChildBlock(lc, lss, c),
                           rc |-> ChildBlock(rc, rss, c)]
                          : c \in KeyChildren(key)}
    /\ UNCHANGED <<mleft, mright, mtol, mpc, rmivars, treevars, gaxvars, opvars, extvars>>

\* if (fence) world.gop.fence(): every task has run
mul_fence ==
    /\ mpc = "run"
    /\ mtasks = {}
    /\ mpc' = "fenced"
    /\ UNCHANGED <<mleft, mright, mtol, mresult, mtasks, mlog, rmivars, treevars, gaxvars, opvars, extvars>>

\* no multiplication: empty trees
MulIdle ==
    /\ mleft = [k \in MKeys |-> NoEntry]
    /\ mright = [k \in MKeys |-> NoEntry]
    /\ mtol = 0
    /\ mresult = [k \in MKeys |-> NoEntry]
    /\ mtasks = {}
    /\ mlog = [k \in MKeys |-> ""]
    /\ mpc = "idle"

\* ------------------------------------------------------------------------
\* FunctionImpl::standard: non-standard compressed form to standard form
\* ------------------------------------------------------------------------
\* the scaling coefficients compress hands up from key k of a reconstructed
\* tree: those of a leaf, or what compress_op returns for an interior key
RECURSIVE ScalingOf(_, _)
ScalingOf(tree, k) ==
    IF ~tree[k].has_children THEN tree[k].coeff
    ELSE compress_op(KeyLevel(k),
                     [c \in 0..1 |-> ScalingOf(tree, 2 * k + c)], TRUE).ret

\* the tree compress(nonstandard = true, keepleaves, fence = true) leaves
NonStandardOf(tree, keepleaves) ==
    [k \in MKeys |->
        IF tree[k] = NoEntry THEN NoEntry
        ELSE IF tree[k].has_children
        THEN compress_op(KeyLevel(k),
                         [c \in 0..1 |-> ScalingOf(tree, 2 * k + c)], TRUE).node
        ELSE IF keepleaves THEN tree[k]
        ELSE MakeNode(EmptyTensor, FALSE)]

\* FunctionNode::clear_coeff
clear_coeff(node) == [node EXCEPT !.coeff = EmptyTensor]

\* (variant: the level of the key is not looked at)
TouchedAtAnyLevel(level, node) == has_coeff(node)

\* if (key.level() > 0 && node.has_coeff())
TouchedByStandard(level, node) == level > 0 /\ has_coeff(node)

\* FunctionImpl::standard: the loop over the entries of coeffs
standard(tree) ==
    [k \in DOMAIN tree |->
        IF tree[k] # NoEntry /\ TouchedByStandard(KeyLevel(k), tree[k])
        THEN IF tree[k].has_children
             THEN [tree[k] EXCEPT !.coeff[S0] = 0]
             ELSE clear_coeff(tree[k])
        ELSE tree[k]]

ApplyStandard ==
    /\ op = "none"
    /\ \E leaves \in LeafSets(Root) : \E keepleaves \in BOOLEAN :
        LET tree == NonStandardOf(TreeOf(leaves), keepleaves)
        IN  /\ op' = "standard"
            /\ opin' = tree
            /\ opout' = [once |-> standard(tree), twice |-> standard(standard(tree))]
    /\ UNCHANGED <<rmivars, treevars, gaxvars, mulvars, extvars>>

\* ========================================================================
\* The bottom-up recursions: norm_tree and compress
\* ========================================================================
\* norm_tree(fence) or compress(nonstandard, keepleaves, fence) on the rank
\* that owns the root: the spawn function is called on key0
bottom_up_call ==
    /\ ntpc = "idle"
    /\ \E kind \in {"norm_tree", "compress"} : nkind' = kind
    /\ ntasks' = {[f |-> "spawn", key |-> Root]}
    /\ ntpc' = "run"
    /\ UNCHANGED <<ntree, fut, nblocked, nres, cdvars, fivars, flagvars, latevars, rmivars, treevars, gaxvars,
                   opvars, mulvars>>

\* what the leaf of a recursion returns: node.coeff().normf(), kept as its
\* square, or the scaling coefficients of the leaf
LeafValue(kind, node) ==
    IF kind = "norm_tree" THEN NormSq(node.coeff) ELSE node.coeff[1]

\* norm_tree_spawn(key), compress_spawn(key): an interior key sends the
\* spawn to each child, keeps the futures v[i] and submits its op task with
\* the vector v; a leaf returns a future that is already set
bottom_up_spawn(k) ==
    /\ [f |-> "spawn", key |-> k] \in ntasks
    /\ IF ntree[k].has_children
       THEN /\ ntasks' = (ntasks \ {[f |-> "spawn", key |-> k]})
                         \cup {[f |-> "spawn", key |-> c] : c \in KeyChildren(k)}
                         \cup {[f |-> "op", key |-> k]}
            /\ UNCHANGED fut
       ELSE /\ ntasks' = ntasks \ {[f |-> "spawn", key |-> k]}
            /\ fut' = [fut EXCEPT ![k] = <<LeafValue(nkind, ntree[k])>>]
    /\ UNCHANGED <<ntree, nkind, nblocked, nres, ntpc, cdvars, fivars, flagvars, latevars, rmivars, treevars,
                   gaxvars, opvars, mulvars>>

\* (variant: the op task is submitted without the futures of the children)
DependsOnNothing(k) == {}

\* task(world.rank(), &implT::norm_tree_op, key, v): the futures handed to
\* the op task of key k are those of its children
DependsOn(k) == KeyChildren(k)

\* the task queue runs a task only when every future among its arguments
\* has been set
TaskReady(k) == \A c \in DependsOn(k) : fut[c] # <<>>

\* v[i].get() in the op task: the value of a set future; a future that is
\* not set makes the call block, and what it yields is then not the
\* child's result
FutureGet(c) == IF fut[c] = <<>> THEN 0 ELSE fut[c][1]

\* (variant: only the first child enters the sum)
OpValueFirstChild(kind, k) ==
    IF kind = "norm_tree"
    THEN FutureGet(2 * k)
    ELSE compress_op(KeyLevel(k), [c \in 0..1 |-> <<FutureGet(2 * k + c)>>], FALSE).ret[1]

\* norm_tree_op: sum of value*value over the children (the root is left to
\* the caller); compress_op: filter of the children's blocks, the scaling
\* block s returned
OpValue(kind, k) ==
    IF kind = "norm_tree"
    THEN FutureGet(2 * k) + FutureGet(2 * k + 1)
    ELSE compress_op(KeyLevel(k), [c \in 0..1 |-> <<FutureGet(2 * k + c)>>], FALSE).ret[1]

\* what the op task stores at its key: the norm handed to set_norm_tree, or
\* the coefficients of the node compress_op puts in place
NodeWritten(kind, k) ==
    IF kind = "norm_tree"
    THEN <<OpValue(kind, k)>>
    ELSE compress_op(KeyLevel(k), [c \in 0..1 |-> <<FutureGet(2 * k + c)>>], FALSE).node.coeff

\* norm_tree_op(key, v), compress_op(key, v, nonstandard)
bottom_up_op(k) ==
    /\ [f |-> "op", key |-> k] \in ntasks
    /\ TaskReady(k)
    /\ ntasks' = ntasks \ {[f |-> "op", key |-> k]}
    /\ nblocked' = IF \E c \in KeyChildren(k) : fut[c] = <<>>
                   THEN nblocked \cup {k} ELSE nblocked
    /\ fut' = [fut EXCEPT ![k] = <<OpValue(nkind, k)>>]
    /\ nres' = [nres EXCEPT ![k] = NodeWritten(nkind, k)]
    /\ UNCHANGED <<ntree, nkind, ntpc, cdvars, fivars, flagvars, latevars, rmivars, treevars, gaxvars, opvars,
                   mulvars>>

\* if (fence) world.gop.fence(): every task has run
bottom_up_fence ==
    /\ ntpc = "run"
    /\ ntasks = {}
    /\ ntpc' = "fenced"
    /\ UNCHANGED <<ntree, nkind, fut, ntasks, nblocked, nres, cdvars, fivars, flagvars, latevars, rmivars,
                   treevars, gaxvars, opvars, mulvars>>

\* ========================================================================
\* FunctionImpl::refine, refine_spawn and refine_op as tasks
\* ========================================================================
\* the tasks refine can submit
RefineTasks == {"refine_spawn", "refine_op"} \X MKeys

\* max_refine_level of the tree: the deepest level of the model
RefineLimit == MulDepth

\* task(owner, f, key): one more task <<f, key>> to run
Submit(pend, ts) == [t \in RefineTasks |-> pend[t] + (IF t \in ts THEN 1 ELSE 0)]

\* refine(fence): task(coeffs.owner(key0), &implT::refine_spawn, key0, hipri)
refine ==
    /\ rpc = "idle"
    /\ rpend' = Submit(rpend, {<<"refine_spawn", Root>>})
    /\ rpc' = "run"
    /\ UNCHANGED <<rtree, rold, rvisits, rops, earlyvars, xgvars, mvvars>>

\* (variant: refine_op is submitted for interior nodes as well)
SpawnTargetsAll(node, key) ==
    (IF node.has_children THEN {<<"refine_spawn", c>> : c \in KeyChildren(key)} ELSE {})
    \cup {<<"refine_op", key>>}

\* refine_spawn: the tasks it submits for a node
SpawnTargets(node, key) ==
    IF node.has_children
    THEN {<<"refine_spawn", c>> : c \in KeyChildren(key)}
    ELSE {<<"refine_op", key>>}

\* a refine_spawn task runs
refine_spawn(key) ==
    /\ rpend[<<"refine_spawn", key>>] > 0
    /\ rtree[key].exists
    /\ rpend' = Submit([rpend EXCEPT ![<<"refine_spawn", key>>] = @ - 1],
                       SpawnTargets(rtree[key], key))
    /\ rvisits' = [rvisits EXCEPT ![key] = @ + 1]
    /\ UNCHANGED <<rtree, rold, rops, rpc, earlyvars, xgvars, mvvars>>

\* a refine_op task runs; test is what autorefine_square_test gives
refine_op_task(key) ==
    /\ rpend[<<"refine_op", key>>] > 0
    /\ rtree[key].exists
    /\ \E test \in BOOLEAN :
        LET t == [node |-> rtree[key],
                  child |-> [c \in 0..1 |-> IF 2 * key + c \in MKeys
                                            THEN rtree[2 * key + c] ELSE NoEntry]]
            r == refine_op(t, KeyLevel(key), RefineLimit, test)
        IN  rtree' = [k \in MKeys |->
                        IF k = key THEN r.node
                        ELSE IF k \in KeyChildren(key) THEN r.child[ChildNumber(k)]
                        ELSE rtree[k]]
    /\ rpend' = [rpend EXCEPT ![<<"refine_op", key>>] = @ - 1]
    /\ rops' = [rops EXCEPT ![key] = @ + 1]
    /\ UNCHANGED <<rold, rvisits, rpc, earlyvars, xgvars, mvvars>>

\* if (fence) world.gop.fence(): no task is left
refine_fence ==
    /\ rpc = "run"
    /\ \A t \in RefineTasks : rpend[t] = 0
    /\ rpc' = "fenced"
    /\ UNCHANGED <<rtree, rold, rpend, rvisits, rops, earlyvars, xgvars, mvvars>>

\* ========================================================================
\* FunctionImpl::mulXXvec with one right operand, after mulXX on the same
\* operands
\* ========================================================================
\* stands for the 1e99 lnorm starts with: above every norm
NormUnknown == 1000

\* square of get_norm_tree() of a node that was found, after norm_tree():
\* norm_tree_spawn leaves a leaf's _norm_tree as the constructor set it
GetNormTreeSq(tree, k) ==
    IF has_coeff(tree[k]) THEN NormTreeDefault ELSE NormTreeSq(tree, k)

\* mulXXvec(left, [right], [result], tol, fence) is called on the owner of
\* the root (here once mulXX on the same operands has returned)
mulXXvec ==
    /\ vpc = "idle"
    /\ mpc = "fenced"
    /\ vpc' = "run"
    /\ vtasks' = {[f |-> "mulXXveca", key |-> Root, lc |-> EmptyTensor, rc |-> EmptyTensor]}
    /\ UNCHANGED <<vresult, vlog, earlyvars, xgvars, rfvars>>

\* lnorm and rnorm of mulXXveca: get_norm_tree() of a node that was looked
\* up; for a block that was passed down 1e99 on the left, rc.normf() on the
\* right
VecNorms(tree, key, block, side) ==
    IF Len(block) = 0 THEN GetNormTreeSq(tree, key)
    ELSE IF side = "left" THEN NormUnknown
    ELSE NormSq(block)

\* mulXXveca(key, left, lcin, [right], [rcin], [result], tol)
mulXXveca(t) ==
    /\ t \in vtasks
    /\ t.f = "mulXXveca"
    /\ LET key == t.key
           lfound == Len(t.lc) = 0
           rfound == Len(t.rc) = 0
           lc == IF lfound /\ has_coeff(mleft[key]) THEN mleft[key].coeff ELSE t.lc
           rc == IF rfound /\ has_coeff(mright[key]) THEN mright[key].coeff ELSE t.rc
           lsq == VecNorms(mleft, key, t.lc, "left")
           rsq == VecNorms(mright, key, t.rc, "right")
           lss == IF Len(lc) > 0 THEN unfilter(<<lc[1], 0>>) ELSE EmptyTensor
           rss == IF Len(rc) > 0 THEN unfilter(<<rc[1], 0>>) ELSE EmptyTensor
       IN  /\ lfound => mleft[key].exists
           /\ rfound => mright[key].exists
           /\ IF Len(rc) > 0 /\ Len(lc) > 0
              THEN /\ vtasks' = (vtasks \ {t}) \cup
                                {[f |-> "do_mul", key |-> key, lc |-> lc, rc |-> rc]}
                   /\ UNCHANGED <<vresult, vlog>>
              ELSE IF WritesZeroLeaf(mtol, lsq, rsq)
              THEN /\ vresult' = [vresult EXCEPT ![key] = MakeNode(<<0>>, FALSE)]
                   /\ vlog' = [vlog EXCEPT ![key] = "zero"]
                   /\ vtasks' = vtasks \ {t}
              ELSE /\ vresult' = [vresult EXCEPT ![key] = MakeNode(EmptyTensor, TRUE)]
                   /\ vlog' = [vlog EXCEPT ![key] = "interior"]
                   /\ vtasks' = (vtasks \ {t}) \cup
                         {[f |-> "mulXXveca", key |-> c,
                           lc |-> ChildBlock(lc, lss, c),
                           rc |-> ChildBlock(rc, rss, c)]
                          : c \in KeyChildren(key)}
    /\ UNCHANGED <<vpc, earlyvars, xgvars, rfvars>>

\* result->task(world.rank(), &implT::do_mul, key, lc, make_pair(key, rc))
vec_do_mul(t) ==
    /\ t \in vtasks
    /\ t.f = "do_mul"
    /\ vresult' = [vresult EXCEPT ![t.key] = do_mul(t.lc, t.rc)]
    /\ vlog' = [vlog EXCEPT ![t.key] = "do_mul"]
    /\ vtasks' = vtasks \ {t}
    /\ UNCHANGED <<vpc, earlyvars, xgvars, rfvars>>

\* if (fence) world.gop.fence(): every task has run
mulvec_fence ==
    /\ vpc = "run"
    /\ vtasks = {}
    /\ vpc' = "fenced"
    /\ UNCHANGED <<vresult, vtasks, vlog, earlyvars, xgvars, rfvars>>

\* ========================================================================
\* FunctionImpl::compress and FunctionImpl::reconstruct: the flags
\* compressed and nonstandard over a sequence of calls on every rank
\* ========================================================================
FlagRanks == {0, 1}

\* coeffs.owner(cdata.key0)
OwnerOfKey0 == 0

\* compress(nonstandard, keepleaves, fence) and reconstruct(fence)
FlagCalls ==
    {[f |-> "compress", nonstandard |-> ns, keepleaves |-> kl, fence |-> fe] :
        ns \in BOOLEAN, kl \in BOOLEAN, fe \in BOOLEAN}
    \cup {[f |-> "reconstruct", nonstandard |-> FALSE, keepleaves |-> FALSE, fence |-> fe] :
        fe \in BOOLEAN}

\* (variant: reconstruct clears compressed only)
reconstruct_keeps_nonstandard(old) == [compressed |-> FALSE, nonstandard |-> old.nonstandard]

\* nonstandard = compressed = false;
reconstruct_flags(old) == [compressed |-> FALSE, nonstandard |-> FALSE]

\* this->compressed = true; this->nonstandard = nonstandard;
compress_flags(old, nonstandard) == [compressed |-> TRUE, nonstandard |-> nonstandard]

\* bool is_compressed() const {return compressed;}
is_compressed(r) == flags[r].compressed

\* a rank enters compress or reconstruct (the next call of the program) and
\* runs its first statements, which set the flags
flag_call(r) ==
    /\ flagpc[r] = "idle"
    /\ flagidx[r] < MaxFlagCalls
    /\ \E c \in FlagCalls :
        /\ IF flagidx[r] < Len(flagprog)
           THEN c = flagprog[flagidx[r] + 1] /\ UNCHANGED flagprog
           ELSE flagprog' = Append(flagprog, c)
        /\ flags' = [flags EXCEPT ![r] = IF c.f = "compress"
                                         THEN compress_flags(@, c.nonstandard)
                                         ELSE reconstruct_flags(@)]
    /\ flagidx' = [flagidx EXCEPT ![r] = @ + 1]
    /\ flagpc' = [flagpc EXCEPT ![r] = "spawn"]
    /\ UNCHANGED <<flagtasks, cdvars, ntvars, fivars, latevars, rmivars, treevars, gaxvars, opvars, mulvars>>

\* if (world.rank() == coeffs.owner(cdata.key0)) compress_spawn(key0, ...)
\* or task(world.rank(), &implT::reconstruct_op, key0, tensorT())
flag_spawn(r) ==
    /\ flagpc[r] = "spawn"
    /\ flagtasks' = IF r = OwnerOfKey0
                    THEN flagtasks \cup {[call |-> flagidx[r],
                                          f |-> IF flagprog[flagidx[r]].f = "compress"
                                                THEN "compress_spawn" ELSE "reconstruct_op",
                                          seen |-> flags[r]]}
                    ELSE flagtasks
    /\ flagpc' = [flagpc EXCEPT ![r] = "fence"]
    /\ UNCHANGED <<flags, flagidx, flagprog, cdvars, ntvars, fivars, latevars, rmivars, treevars,
                   gaxvars, opvars, mulvars>>

\* world.gop.fence() returns on a rank once every rank has entered it and
\* no task is left
FenceDone(r) ==
    /\ flagtasks = {}
    /\ \A r2 \in FlagRanks :
        \/ flagidx[r2] > flagidx[r]
        \/ flagidx[r2] = flagidx[r] /\ flagpc[r2] \in {"fence", "idle"}

\* if (fence) world.gop.fence(); and the return
flag_fence(r) ==
    /\ flagpc[r] = "fence"
    /\ flagprog[flagidx[r]].fence => FenceDone(r)
    /\ flagpc' = [flagpc EXCEPT ![r] = "idle"]
    /\ UNCHANGED <<flags, flagidx, flagprog, flagtasks, cdvars, ntvars, fivars, latevars, rmivars,
                   treevars, gaxvars, opvars, mulvars>>

\* a recursion task (and those it spawns) runs: it works on the nodes and
\* leaves the flags alone
flag_task_run ==
    /\ \E t \in flagtasks : flagtasks' = flagtasks \ {t}
    /\ UNCHANGED <<flags, flagpc, flagidx, flagprog, cdvars, ntvars, fivars, latevars, rmivars,
                   treevars, gaxvars, opvars, mulvars>>

\* ========================================================================
\* The two constructors of FunctionImpl, step by step
\* ========================================================================
\* the members in the order of their declaration, which is the order of
\* their initialization
MembersBeforeCoeffs ==
    {"world", "k", "thresh", "initial_level", "max_refine_level", "truncate_mode",
     "autorefine", "truncate_on_project", "nonstandard", "cdata", "functor", "compressed"}
MembersAfterCoeffs == {"bc", "apply_time"}
AllMembers == MembersBeforeCoeffs \cup {"coeffs"} \cup MembersAfterCoeffs

\* the sets of keys a rank can own
LocalSets == {MKeys, {k \in MKeys : k = Root \/ k % 2 = 0}}

\* FunctionImpl(factory) is called, or FunctionImpl(other, pmap, dozero)
ctor_call ==
    /\ fipc = "idle"
    /\ \/ \E e, f, r, fe \in BOOLEAN : \E il \in 0..MulDepth : \E loc \in LocalSets :
            fi' = [which |-> "factory", empty |-> e, functor |-> f, refine |-> r,
                   fence |-> fe, initial_level |-> il, dozero |-> FALSE, local |-> loc]
       \/ \E dz \in BOOLEAN : \E il \in 0..MulDepth : \E loc \in LocalSets :
            fi' = [which |-> "copy", empty |-> FALSE, functor |-> FALSE, refine |-> FALSE,
                   fence |-> FALSE, initial_level |-> il, dozero |-> dz, local |-> loc]
    /\ fipc' = "members"
    /\ UNCHANGED <<fimembers, ficoeffs, fitasks, fipend, fireg, fisent, fihandled,
                   fifenced, cdvars, ntvars, flagvars, latevars, rmivars, treevars, gaxvars, opvars, mulvars>>

\* the initializers of world ... compressed
ctor_members ==
    /\ fipc = "members"
    /\ fimembers' = MembersBeforeCoeffs
    /\ fipc' = "coeffs"
    /\ UNCHANGED <<fi, ficoeffs, fitasks, fipend, fireg, fisent, fihandled, fifenced,
                   cdvars, ntvars, flagvars, latevars, rmivars, treevars, gaxvars, opvars, mulvars>>

\* WorldContainer(world, pmap, do_pending) when do_pending is left out
DefaultDoPending == TRUE

\* coeffs(world, factory._pmap, false) in the constructor from a factory,
\* coeffs(world, pmap ? pmap : other.coeffs.get_pmap()) in the other
DoPendingAtConstruction(which) ==
    IF which = "factory" THEN FALSE ELSE DefaultDoPending

\* the messages of fipend for target to, handled against the present state
Released(to, members) ==
    {[to |-> to, members |-> members, at |-> fipc] : m \in fipend \cap {to}}

\* the initializer of coeffs
ctor_coeffs ==
    /\ fipc = "coeffs"
    /\ fimembers' = fimembers \cup {"coeffs"}
    /\ IF DoPendingAtConstruction(fi.which)
       THEN /\ fihandled' = fihandled \cup Released("coeffs", fimembers \cup {"coeffs"})
            /\ fipend' = fipend \ {"coeffs"}
            /\ fireg' = fireg \cup {"coeffs"}
       ELSE UNCHANGED <<fihandled, fipend, fireg>>
    /\ fipc' = "rest"
    /\ UNCHANGED <<fi, ficoeffs, fitasks, fisent, fifenced,
                   cdvars, ntvars, flagvars, latevars, rmivars, treevars, gaxvars, opvars, mulvars>>

\* the initializers of bc and apply_time
ctor_rest ==
    /\ fipc = "rest"
    /\ fimembers' = fimembers \cup MembersAfterCoeffs
    /\ fipc' = "body"
    /\ UNCHANGED <<fi, ficoeffs, fitasks, fipend, fireg, fisent, fihandled, fifenced,
                   cdvars, ntvars, flagvars, latevars, rmivars, treevars, gaxvars, opvars, mulvars>>

\* if (do_refine) initial_level = std::max(0,initial_level - 1);
\* initial_level = 1 for a zero function
SeedLevel(c) ==
    IF c.which = "copy" THEN 1
    ELSE IF ~c.empty /\ ~c.functor THEN 1
    ELSE IF c.refine
         THEN (IF c.initial_level - 1 > 0 THEN c.initial_level - 1 ELSE 0)
         ELSE c.initial_level

\* insert_zero_down_to_initial_level(key0): local keys above initial_level
\* become interior nodes without coefficients, local keys at initial_level
\* leaves with zero coefficients
insert_zero_down_to_initial_level(c, level, local) ==
    [k \in MKeys |->
        IF k \in local /\ KeyLevel(k) < level THEN MakeNode(EmptyTensor, TRUE)
        ELSE IF k \in local /\ KeyLevel(k) = level THEN MakeNode(<<0>>, FALSE)
        ELSE c[k]]

\* whether the body inserts nodes: not for empty(), always for a functor or
\* a zero function; in the copy constructor only with dozero
Seeds(c) == IF c.which = "copy" THEN c.dozero ELSE ~c.empty

\* the body up to the insertion of the initial nodes
ctor_insert ==
    /\ fipc = "body"
    /\ ficoeffs' = IF Seeds(fi)
                   THEN insert_zero_down_to_initial_level(ficoeffs, SeedLevel(fi), fi.local)
                   ELSE ficoeffs
    /\ fipc' = "schedule"
    /\ UNCHANGED <<fi, fimembers, fitasks, fipend, fireg, fisent, fihandled, fifenced,
                   cdvars, ntvars, flagvars, latevars, rmivars, treevars, gaxvars, opvars, mulvars>>

\* (variant: a task for every entry of the container)
WantsTaskAlways(node) == TRUE

\* if (it->second.is_leaf())
WantsTask(node) == ~node.has_children

\* the loop over coeffs that submits project_refine_op for the leaves
RECURSIVE project_tasks(_, _)
project_tasks(c, ks) ==
    IF ks = {} THEN <<>>
    ELSE LET k == Min(ks)
         IN  (IF WantsTask(c[k]) THEN <<k>> ELSE <<>>) \o project_tasks(c, ks \ {k})

\* else if (functor) { ... for (it ...) task(..., project_refine_op, ...) }
ctor_schedule ==
    /\ fipc = "schedule"
    /\ fitasks' = IF fi.which = "factory" /\ ~fi.empty /\ fi.functor
                  THEN project_tasks(ficoeffs, {k \in MKeys : ficoeffs[k] # NoEntry})
                  ELSE <<>>
    /\ fipc' = "pp_coeffs"
    /\ UNCHANGED <<fi, fimembers, ficoeffs, fipend, fireg, fisent, fihandled, fifenced,
                   cdvars, ntvars, flagvars, latevars, rmivars, treevars, gaxvars, opvars, mulvars>>

\* coeffs.process_pending();
process_pending_coeffs ==
    /\ fipc = "pp_coeffs"
    /\ fihandled' = fihandled \cup Released("coeffs", fimembers)
    /\ fipend' = fipend \ {"coeffs"}
    /\ fireg' = fireg \cup {"coeffs"}
    /\ fipc' = "pp_this"
    /\ UNCHANGED <<fi, fimembers, ficoeffs, fitasks, fisent, fifenced,
                   cdvars, ntvars, flagvars, latevars, rmivars, treevars, gaxvars, opvars, mulvars>>

\* this->process_pending();
process_pending_this ==
    /\ fipc = "pp_this"
    /\ fihandled' = fihandled \cup Released("this", fimembers)
    /\ fipend' = fipend \ {"this"}
    /\ fireg' = fireg \cup {"this"}
    /\ fipc' = "fence"
    /\ UNCHANGED <<fi, fimembers, ficoeffs, fitasks, fisent, fifenced,
                   cdvars, ntvars, flagvars, latevars, rmivars, treevars, gaxvars, opvars, mulvars>>

\* if (factory._fence && functor) world.gop.fence(); the copy constructor
\* has no fence
ctor_fence ==
    /\ fipc = "fence"
    /\ fifenced' = (fi.which = "factory" /\ fi.fence /\ fi.functor)
    /\ fipc' = "done"
    /\ UNCHANGED <<fi, fimembers, ficoeffs, fitasks, fipend, fireg, fisent, fihandled,
                   cdvars, ntvars, flagvars, latevars, rmivars, treevars, gaxvars, opvars, mulvars>>

\* a message for the container or for the object arrives from another
\* rank: it is handled at once when process_pending has been called for its
\* target, and waits otherwise
msg_arrive(to) ==
    /\ fipc \notin {"idle", "done"}
    /\ to \notin fisent
    /\ fisent' = fisent \cup {to}
    /\ IF to \in fireg
       THEN /\ fihandled' = fihandled \cup {[to |-> to, members |-> fimembers, at |-> fipc]}
            /\ UNCHANGED fipend
       ELSE /\ fipend' = fipend \cup {to}
            /\ UNCHANGED fihandled
    /\ UNCHANGED <<fi, fipc, fimembers, ficoeffs, fitasks, fireg, fifenced,
                   cdvars, ntvars, flagvars, latevars, rmivars, treevars, gaxvars, opvars, mulvars>>

\* nothing applied yet
OpsIdle == op = "none" /\ opin = <<>> /\ opout = <<>>

\* no thread has asked for the common data
CdIdle ==
    /\ data = [k \in CommonOrders |-> [initialized |-> FALSE, tables |-> "none", ninit |-> 0]]
    /\ cthr = [t \in CommonThreads |-> [pc |-> "idle", k |-> 0]]

\* no bottom-up recursion has been called
NtIdle ==
    /\ ntree = [k \in MKeys |-> NoEntry]
    /\ nkind = "none"
    /\ fut = [k \in MKeys |-> <<>>]
    /\ ntasks = {}
    /\ nblocked = {}
    /\ nres = [k \in MKeys |-> <<>>]
    /\ ntpc = "idle"

\* no constructor has been called
FiIdle ==
    /\ fi = [which |-> "none"]
    /\ fipc = "idle"
    /\ fimembers = {}
    /\ ficoeffs = [k \in MKeys |-> NoEntry]
    /\ fitasks = <<>>
    /\ fipend = {}
    /\ fireg = {}
    /\ fisent = {}
    /\ fihandled = {}
    /\ fifenced = FALSE

\* FunctionImpl(factory): nonstandard(false), compressed(false); no call yet
FlagIdle ==
    /\ flags = [r \in FlagRanks |-> [compressed |-> FALSE, nonstandard |-> FALSE]]
    /\ flagpc = [r \in FlagRanks |-> "idle"]
    /\ flagidx = [r \in FlagRanks |-> 0]
    /\ flagprog = <<>>
    /\ flagtasks = {}

\* no out-of-place gaxpy: empty trees
XgIdle ==
    /\ xres = [k \in GKeys |-> NoEntry]
    /\ xleft = [k \in GKeys |-> NoEntry]
    /\ xright = [k \in GKeys |-> NoEntry]
    /\ xargs = [alpha |-> 1, beta |-> 1]
    /\ xold = [k \in GKeys |-> NoEntry]
    /\ xsent = {}
    /\ xpend = {}
    /\ xlog = <<>>
    /\ xpc = "idle"

\* no refine call: an empty tree
RfIdle ==
    /\ rtree = [k \in MKeys |-> NoEntry]
    /\ rold = [k \in MKeys |-> NoEntry]
    /\ rpend = [t \in RefineTasks |-> 0]
    /\ rvisits = [k \in MKeys |-> 0]
    /\ rops = [k \in MKeys |-> 0]
    /\ rpc = "idle"

\* no vectorized multiplication
MvIdle ==
    /\ vresult = [k \in MKeys |-> NoEntry]
    /\ vtasks = {}
    /\ vlog = [k \in MKeys |-> ""]
    /\ vpc = "idle"

LateIdle == XgIdle /\ RfIdle /\ MvIdle

ExtIdle == CdIdle /\ NtIdle /\ FiIdle /\ FlagIdle /\ LateIdle

AlgIdle == GaxIdle /\ OpsIdle /\ MulIdle /\ ExtIdle

\* ------------------------------------------------------------------------
\* The state after RMI::RMI() on every rank, some traffic having been
\* exchanged and fully delivered before (the counters of a pair are equal).
\* ------------------------------------------------------------------------
RmiInit(counts) ==
    /\ \E c \in counts :
         /\ send_counters = [s \in Srcs |-> c]
         /\ recv_counters = [s \in Srcs |-> c]
    /\ mutex = [s \in Srcs |-> {}]
    /\ thr = [s \in Srcs |-> [t \in Threads |-> IdleFrame]]
    /\ ackq = [s \in Srcs |-> <<>>]
    /\ ackflight = [s \in Srcs |-> 0]
    /\ net = {}
    /\ recv_buf = [i \in 0..nrecv_ |-> IF i < nrecv_ THEN PostedBuf ELSE NullBuf]
    /\ posted = 0..(nrecv_ - 1)
    /\ q = <<>>
    /\ hugeq = <<>>
    /\ dispatched = [s \in Srcs |-> <<>>]
    /\ sublog = [s \in Srcs |-> <<>>]
    /\ ncalls = 0
    /\ finished = FALSE
    /\ srvpc = "poll"
    /\ excs = {}

Init == RmiInit(StartCounts) /\ quota = MaxCalls /\ TreeEmpty /\ AlgIdle

FairInit == RmiInit(StartCounts) /\ quota = FairCalls /\ TreeEmpty /\ AlgIdle

\* no RMI activity: nothing is sent
RmiIdle == RmiInit({0}) /\ quota = 0

RmiNext ==
    \/ \E s \in Srcs : \E t \in ThreadsOf(s) : IsendBegin(s, t)
    \/ \E s \in Srcs : \E t \in ThreadsOf(s) : SendCtl(s, t)
    \/ \E s \in Srcs : \E t \in ThreadsOf(s) : SubmitAndUnlock(s, t)
    \/ \E s \in Srcs : \E t \in ThreadsOf(s) : WaitAck(s, t)
    \/ \E m \in net : ArriveEager(m)
    \/ \E m \in net : ArriveHuge(m)
    \/ \E s \in Srcs : ArriveAck(s)
    \/ Wakeup
    \/ ServerExit
    \/ End

Next == RmiNext

Spec == Init /\ [][Next]_vars

\* The server thread is a thread of its own that is always scheduled again:
\* a wakeup that is possible happens, and so does the return from run().
FairSpec == FairInit /\ [][Next]_vars /\ WF_vars(Wakeup) /\ WF_vars(ServerExit)

\* a connected tree at a fence: no task pending
TreeInit ==
    /\ \E seeds \in SUBSET Keys :
          /\ Cardinality(seeds) <= MaxSeeds
          /\ \E withCoeff \in SUBSET seeds : coeffs = GrownFrom(seeds, withCoeff)
    /\ tasks = [k \in Keys |-> 0]
    /\ naccum = 0
    /\ accumulated = {}
    /\ RmiIdle
    /\ AlgIdle

TreeNext ==
    \/ \E k \in Keys : accumulate(k)
    \/ \E k \in Keys : set_has_children_recursive(k)

SpecTree == TreeInit /\ [][TreeNext]_vars

\* two trees, the scalars and whether the process maps are equal
GaxInit ==
    /\ gdest \in [GKeys -> NodeStates]
    /\ gother \in [GKeys -> NodeStates]
    /\ \E ab \in Scalars : \E same \in BOOLEAN :
          gargs = [alpha |-> ab[1], beta |-> ab[2], same |-> same]
    /\ gold = gdest
    /\ gsent = {}
    /\ gpend = {}
    /\ gpc = "idle"
    /\ RmiIdle
    /\ TreeEmpty
    /\ OpsIdle
    /\ MulIdle
    /\ ExtIdle

GaxNext ==
    \/ gaxpy_call
    \/ \E k \in GKeys : do_gaxpy_inplace(k)
    \/ \E k \in GKeys : gaxpy_send(k)
    \/ \E k \in GKeys : gaxpy_run(k)
    \/ gaxpy_fence

SpecGaxpy == GaxInit /\ [][GaxNext]_vars

OpsInit == OpsIdle /\ GaxIdle /\ MulIdle /\ ExtIdle /\ RmiIdle /\ TreeEmpty

OpsNext ==
    \/ ApplyCompressOp
    \/ ApplyRefineOp
    \/ ApplyApply
    \/ ApplyNeighbor
    \/ ApplyFunctionImpl
    \/ ApplyTruncateTol
    \/ ApplyOwner
    \/ ApplyStandard
    \/ ApplyConvert

SpecOps == OpsInit /\ [][OpsNext]_vars

\* do_apply on its own: one call on a key, a displacement list and a
\* boundary condition matrix
DoApplyNext == ApplyDoApply

SpecDoApply == OpsInit /\ [][DoApplyNext]_vars

\* store and load on their own: one tree stored and loaded into another
StoreNext == ApplyStoreLoad

SpecStore == OpsInit /\ [][StoreNext]_vars

\* the construction of RMI on its own: one value of each environment variable
RmiCtorNext == ApplyRMI

SpecRmiCtor == OpsInit /\ [][RmiCtorNext]_vars

IsendEntryNext == ApplyIsend

SpecIsendEntry == OpsInit /\ [][IsendEntryNext]_vars


CdInit == AlgIdle /\ RmiIdle /\ TreeEmpty

CdNext ==
    \E t \in CommonThreads :
        \/ get_call(t)
        \/ get_test(t)
        \/ initialize_fields(t)
        \/ initialize_tables(t)
        \/ initialize_flag(t)

SpecCommon == CdInit /\ [][CdNext]_vars

\* a reconstructed tree on which a bottom-up recursion is about to run
NtInit ==
    /\ \E l \in LeafSets(Root) : ntree = TreeOf(l)
    /\ nkind = "none"
    /\ fut = [k \in MKeys |-> <<>>]
    /\ ntasks = {}
    /\ nblocked = {}
    /\ nres = [k \in MKeys |-> <<>>]
    /\ ntpc = "idle"
    /\ CdIdle /\ FiIdle /\ FlagIdle /\ LateIdle /\ GaxIdle /\ OpsIdle /\ MulIdle /\ RmiIdle /\ TreeEmpty

NtNext ==
    \/ bottom_up_call
    \/ \E k \in MKeys : bottom_up_spawn(k)
    \/ \E k \in MKeys : bottom_up_op(k)
    \/ bottom_up_fence

SpecBottomUp == NtInit /\ [][NtNext]_vars

FlagInit == AlgIdle /\ RmiIdle /\ TreeEmpty

FlagNext ==
    \/ \E r \in FlagRanks : flag_call(r)
    \/ \E r \in FlagRanks : flag_spawn(r)
    \/ \E r \in FlagRanks : flag_fence(r)
    \/ flag_task_run

SpecFlags == FlagInit /\ [][FlagNext]_vars

FiInit == AlgIdle /\ RmiIdle /\ TreeEmpty

FiNext ==
    \/ ctor_call
    \/ ctor_members
    \/ ctor_coeffs
    \/ ctor_rest
    \/ ctor_insert
    \/ ctor_schedule
    \/ process_pending_coeffs
    \/ process_pending_this
    \/ ctor_fence
    \/ \E to \in {"coeffs", "this"} : msg_arrive(to)

SpecCtor == FiInit /\ [][FiNext]_vars

\* the tolerances of the two multiplications
MulTols == {0, 1}

\* two reconstructed trees and a tolerance, two empty results
MvInit ==
    /\ \E l \in LeafSets(Root) : mleft = TreeOf(l)
    /\ \E r \in LeafSets(Root) : mright = TreeOf(r)
    /\ mtol \in MulTols
    /\ mresult = [k \in MKeys |-> NoEntry]
    /\ mtasks = {}
    /\ mlog = [k \in MKeys |-> ""]
    /\ mpc = "idle"
    /\ MvIdle
    /\ RmiIdle /\ TreeEmpty /\ GaxIdle /\ OpsIdle
    /\ CdIdle /\ NtIdle /\ FiIdle /\ FlagIdle /\ XgIdle /\ RfIdle

MvNext ==
    \/ mulXX
    \/ \E t \in mtasks : mulXXa(t)
    \/ mul_fence
    \/ mulXXvec
    \/ \E t \in vtasks : mulXXveca(t)
    \/ \E t \in vtasks : vec_do_mul(t)
    \/ mulvec_fence

SpecMulVec == MvInit /\ [][MvNext]_vars

\* a connected reconstructed tree
RfInit ==
    /\ \E l \in LeafSets(Root) : rtree = TreeOf(l)
    /\ rold = rtree
    /\ rpend = [t \in RefineTasks |-> 0]
    /\ rvisits = [k \in MKeys |-> 0]
    /\ rops = [k \in MKeys |-> 0]
    /\ rpc = "idle"
    /\ RmiIdle /\ TreeEmpty /\ GaxIdle /\ OpsIdle /\ MulIdle
    /\ CdIdle /\ NtIdle /\ FiIdle /\ FlagIdle /\ XgIdle /\ MvIdle

RfNext ==
    \/ refine
    \/ \E key \in MKeys : refine_spawn(key)
    \/ \E key \in MKeys : refine_op_task(key)
    \/ refine_fence

SpecRefine == RfInit /\ [][RfNext]_vars

\* the nodes the result can hold at a key when gaxpy is called
ResultStates == {NoEntry, MakeNode(<<1>>, FALSE), MakeNode(EmptyTensor, TRUE)}

XgInit ==
    /\ xres \in [GKeys -> ResultStates]
    /\ xleft \in [GKeys -> NodeStates]
    /\ xright \in [GKeys -> NodeStates]
    /\ xargs = [alpha |-> 2, beta |-> 3]
    /\ xold = xres
    /\ xsent = {}
    /\ xpend = {}
    /\ xlog = <<>>
    /\ xpc = "idle"
    /\ RmiIdle /\ TreeEmpty /\ GaxIdle /\ OpsIdle /\ MulIdle
    /\ CdIdle /\ NtIdle /\ FiIdle /\ FlagIdle /\ RfIdle /\ MvIdle

XgNext ==
    \/ xgaxpy_call
    \/ \E side \in {"left", "right"} : \E k \in GKeys : xgaxpy_send(side, k)
    \/ xgaxpy_next_loop
    \/ \E side \in {"left", "right"} : \E k \in GKeys : xgaxpy_run(side, k)
    \/ xgaxpy_fence

SpecGaxpyOut == XgInit /\ [][XgNext]_vars

\* two reconstructed trees and a tolerance
MulInit ==
    /\ \E l \in LeafSets(Root) : mleft = TreeOf(l)
    /\ \E r \in LeafSets(Root) : mright = TreeOf(r)
    /\ mtol \in {0, 1}
    /\ mresult = [k \in MKeys |-> NoEntry]
    /\ mtasks = {}
    /\ mlog = [k \in MKeys |-> ""]
    /\ mpc = "idle"
    /\ GaxIdle /\ OpsIdle /\ ExtIdle /\ RmiIdle /\ TreeEmpty

MulNext ==
    \/ mulXX
    \/ \E t \in mtasks : mulXXa(t)
    \/ mul_fence

SpecMul == MulInit /\ [][MulNext]_vars

\* ========================================================================
\* Properties of the RMI layer
\* ========================================================================
\* the ordered messages of rank s in the order Isend submitted them
OrderedSent(s) == SelectSeq(sublog[s], LAMBDA m : is_ordered(m.attr))

\* the handler invocations for ordered messages of rank s, in order
OrderedDispatched(s) == SelectSeq(dispatched[s], LAMBDA e : is_ordered(e.msg.attr))

\* the receive buffers that hold a received, not yet digested message
Holding == {i \in 0..nrecv_ : recv_buf[i].st \in {"complete", "held"}}

\* C1: the ordered messages of a source are dispatched in the order in which
\* they were sent (the order of their sequence numbers), none twice and none
\* lost: the dispatched ones are a prefix of the sent ones and every other
\* one is in flight or sits in a receive buffer.
C1_OrderedFifo ==
    \A s \in Srcs :
        LET d == OrderedDispatched(s)
            sent == OrderedSent(s)
        IN  /\ Len(d) <= Len(sent)
            /\ \A k \in 1..Len(d) : d[k].msg = sent[k]
            /\ Len(sent) = Len(d)
                 + Cardinality({m \in net : m.src = s /\ is_ordered(m.attr)})
                 + Cardinality({i \in Holding : recv_buf[i].msg.src = s
                                                /\ is_ordered(recv_buf[i].msg.attr)})

\* a message that had been parked is dispatched with the last sequence number
\* before the wrap, and the message stamped 0 is dispatched after it
C1_Witness ==
    \E s \in Srcs :
        LET d == OrderedDispatched(s)
        IN  \E k \in 1..Len(d) :
                /\ k + 1 <= Len(d)
                /\ d[k].via = "queue"
                /\ CountOf(d[k].msg.attr) = CounterMod - 1
                /\ CountOf(d[k + 1].msg.attr) = 0

\* buffer i holds an ordered message and every ordered message of the same
\* source between recv_counters[src] and its own number has arrived too
ReadyBuf(i) ==
    /\ i \in Holding
    /\ is_ordered(recv_buf[i].msg.attr)
    /\ LET s == recv_buf[i].msg.src
           c == CountOf(recv_buf[i].msg.attr)
           dist == (c - recv_counters[s] + CounterMod) % CounterMod
       IN  \A k \in 0..(dist - 1) :
               \E j \in Holding :
                   /\ recv_buf[j].msg.src = s
                   /\ is_ordered(recv_buf[j].msg.attr)
                   /\ CountOf(recv_buf[j].msg.attr) = (recv_counters[s] + k) % CounterMod

\* C2: an ordered message that has arrived, all lower-numbered messages of
\* its source having arrived, is dispatched by the server thread with no
\* further arrival needed: when the server thread has no completed receive
\* left to wake up for, no such message is still waiting in a buffer.
C2_ReadyIsDispatched ==
    (srvpc = "poll" /\ Completed = {}) => \A i \in 0..nrecv_ : ~ReadyBuf(i)

\* C3: a payload is on its way on RMI_HUGE_DAT_TAG (stamped by a thread that
\* has its ACK, or submitted) only while the destination has the receive for
\* that source posted on RMI_HUGE_DAT_TAG; and an ACK is on its way only
\* after that receive was posted.
HugePayloadsOut(s) ==
    Cardinality({t \in ThreadsOf(s) : thr[s][t].pc = "send" /\ thr[s][t].tag = "RMI_HUGE_DAT_TAG"})
    + Cardinality({m \in net : m.src = s /\ m.tag = "RMI_HUGE_DAT_TAG"})

C3_PayloadAfterPostedRecv ==
    \A s \in Srcs :
        /\ HugePayloadsOut(s) + ackflight[s] <= 1
        /\ (HugePayloadsOut(s) + ackflight[s] = 1) =>
              /\ recv_buf[nrecv_].st = "posted"
              /\ recv_buf[nrecv_].want.src = s
        /\ \A t \in ThreadsOf(s) :
              (thr[s][t].pc = "send" /\ thr[s][t].tag = "RMI_HUGE_DAT_TAG") => AckReceived(s, t)

\* a huge payload is in flight
C3_Witness == \E m \in net : m.tag = "RMI_HUGE_DAT_TAG"

\* C4: what is received into the buffer posted for a queued request
\* (src, nbyte) is the payload of the isend call that issued the request.
C4_HugePayloadMatches ==
    recv_buf[nrecv_].st \in {"complete", "held"} =>
        /\ recv_buf[nrecv_].msg.id = recv_buf[nrecv_].want.req
        /\ recv_buf[nrecv_].msg.nbyte = recv_buf[nrecv_].want.nbyte
        /\ recv_buf[nrecv_].msg.src = recv_buf[nrecv_].want.src

\* the submissions of the isend call id, in order
SubsOf(s, id) == SelectSeq(sublog[s], LAMBDA m : m.id = id)

\* C5: the protocol follows from the payload size alone: a payload of
\* HEADER_LEN..max_msg_len_ bytes is one send on RMI_TAG, with no control
\* record and no ACK receive; a larger one is an unordered control record on
\* RMI_TAG followed by the payload on RMI_HUGE_DAT_TAG.
C5_ProtocolBySize ==
    \A s \in Srcs :
        /\ \A k \in 1..Len(sublog[s]) :
              LET m == sublog[s][k]
                  subs == SubsOf(s, m.id)
              IN  IF m.func = "huge_msg_handler"
                  THEN /\ m.info.nbyte > max_msg_len_
                       /\ m.tag = "RMI_TAG"
                       /\ ~is_ordered(m.attr)
                       /\ subs[1] = m
                  ELSE IF m.nbyte > max_msg_len_
                  THEN /\ m.tag = "RMI_HUGE_DAT_TAG"
                       /\ Len(subs) = 2
                       /\ subs[2] = m
                       /\ subs[1].func = "huge_msg_handler"
                       /\ subs[1].info = [src |-> s, nbyte |-> m.nbyte]
                  ELSE /\ m.nbyte >= HEADER_LEN
                       /\ m.tag = "RMI_TAG"
                       /\ subs = <<m>>
        /\ \A t \in ThreadsOf(s) :
              /\ thr[s][t].pc \in {"ctl", "wait_ack"} => thr[s][t].nbyte > max_msg_len_
              /\ (\E k \in 1..Len(ackq[s]) : ackq[s][k] = t) => thr[s][t].nbyte > max_msg_len_
              /\ (thr[s][t].pc = "send" /\ thr[s][t].nbyte <= max_msg_len_) =>
                     /\ thr[s][t].tag = "RMI_TAG"
                     /\ SubsOf(s, thr[s][t].id) = <<>>

\* a payload of max_msg_len_ bytes went out eagerly and one of
\* max_msg_len_ + 1 bytes went out on RMI_HUGE_DAT_TAG
C5_Witness ==
    /\ \E s \in Srcs : \E k \in 1..Len(sublog[s]) :
          sublog[s][k].nbyte = max_msg_len_ /\ sublog[s][k].tag = "RMI_TAG"
    /\ \E s \in Srcs : \E k \in 1..Len(sublog[s]) :
          sublog[s][k].nbyte = max_msg_len_ + 1 /\ sublog[s][k].tag = "RMI_HUGE_DAT_TAG"

\* the entries that a step appends to the log of rank s
NewDispatches(s) == SubSeq(dispatched'[s], Len(dispatched[s]) + 1, Len(dispatched'[s]))

\* C6: in a wakeup every completed receive that holds an unordered message is
\* dispatched from the arrived loop; the queue never holds an unordered
\* message; recv_counters[src] advances by one (as an unsigned short) for
\* each ordered message dispatched and by nothing else.
C6_Step ==
    /\ (dispatched' # dispatched \/ q' # q) =>
          \A i \in Completed :
              ~is_ordered(recv_buf[i].msg.attr) =>
                  \E k \in 1..Len(NewDispatches(recv_buf[i].msg.src)) :
                      /\ NewDispatches(recv_buf[i].msg.src)[k].msg = recv_buf[i].msg
                      /\ NewDispatches(recv_buf[i].msg.src)[k].via = "arrived"
    /\ \A k \in 1..Len(q') : is_ordered(q'[k].attr)
    /\ \A s \in Srcs :
          recv_counters'[s] =
              (recv_counters[s]
                 + Len(SelectSeq(NewDispatches(s), LAMBDA e : is_ordered(e.msg.attr))))
              % CounterMod

C6_UnorderedImmediate == [][C6_Step]_vars

\* an unordered message of a source was dispatched while an ordered message
\* of the same source stays parked
C6_Witness ==
    \E s \in Srcs :
        /\ \E k \in 1..Len(q) : q[k].src = s
        /\ \E k \in 1..Len(dispatched[s]) :
              /\ ~is_ordered(dispatched[s][k].msg.attr)
              /\ dispatched[s][k].msg.func = "user"

\* C7: at most one thread of a rank is between the stamp and the Isend, and
\* it holds the mutex; the ordered messages of a rank are submitted with
\* consecutive sequence numbers in submission order, no number given twice,
\* and send_counters is one past the last number given.
C7_StampSubmitAtomic ==
    \A s \in Srcs :
        LET sent == OrderedSent(s)
            holders == {t \in ThreadsOf(s) : thr[s][t].pc = "send"}
            stamped == {t \in holders : is_ordered(thr[s][t].attr)}
        IN  /\ Cardinality(holders) <= 1
            /\ holders = mutex[s]
            /\ \A k \in 1..(Len(sent) - 1) :
                  CountOf(sent[k + 1].attr) = Incr(CountOf(sent[k].attr))
            /\ \A j, k \in 1..Len(sent) :
                  j # k => CountOf(sent[j].attr) # CountOf(sent[k].attr)
            /\ \A t \in stamped :
                  /\ send_counters[s] = Incr(CountOf(thr[s][t].attr))
                  /\ sent # <<>> => CountOf(thr[s][t].attr) = Incr(CountOf(sent[Len(sent)].attr))
            /\ (stamped = {} /\ sent # <<>>) =>
                  send_counters[s] = Incr(CountOf(sent[Len(sent)].attr))

\* one thread of a rank holds the mutex with a stamped message after an
\* ordered message of the rank went out, while another thread of the rank,
\* its ACK received, is waiting for the mutex
C7_Witness ==
    \E s \in Srcs : \E t1, t2 \in ThreadsOf(s) :
        /\ t1 # t2
        /\ thr[s][t1].pc = "send" /\ is_ordered(thr[s][t1].attr)
        /\ thr[s][t2].pc = "wait_ack" /\ AckReceived(s, t2) /\ is_ordered(thr[s][t2].attr)
        /\ OrderedSent(s) # <<>>

\* C9: run() returns only on a poll that found no completed receive, with the
\* flag set, and without dispatching anything in that step; once the flag is
\* set the server thread eventually returns (the messages being finitely many).
C9_ExitStep ==
    (srvpc' = "exited" /\ srvpc # "exited") =>
        /\ finished
        /\ Completed = {}
        /\ dispatched' = dispatched
        /\ q' = q

C9_ServerExit == [][C9_ExitStep]_vars /\ (finished ~> (srvpc = "exited"))

\* the server thread has returned, having dispatched a message after the
\* flag was set
C9_Witness ==
    /\ srvpc = "exited"
    /\ \E s \in Srcs : \E k \in 1..Len(dispatched[s]) : dispatched[s][k].fin

\* ========================================================================
\* Properties of the function tree
\* ========================================================================
\* a fence: every task has run
Quiescent == \A k \in Keys : tasks[k] = 0

\* node k is linked to the tree: it is the root, or its parent has an entry
\* that knows it has children
Linked(k) == k = Root \/ (coeffs[KeyParent(k)].exists /\ coeffs[KeyParent(k)].has_children)

\* every entry is linked, or the task that links it is pending
ConnectedOrPending ==
    \A k \in Keys : coeffs[k].exists => (Linked(k) \/ tasks[KeyParent(k)] > 0)

\* at a fence every node that received coefficients has an entry with
\* coefficients and every ancestor of it has an entry with has_children
ConnectedAtFence ==
    Quiescent =>
        \A k \in accumulated :
            /\ coeffs[k].exists /\ coeffs[k].has_coeff
            /\ \A a \in Ancestors(k) : coeffs[a].exists /\ coeffs[a].has_children

\* a set_has_children_recursive task that runs on a node that already has
\* children or coefficients, or on the root, starts no task; on any other
\* node it starts exactly one, for the parent
StopsWhenConnected ==
    \A k \in Keys :
        tasks'[k] < tasks[k] =>
            LET node == NodeFor(k)
                done == [tasks EXCEPT ![k] = @ - 1]
            IN  IF node.has_children \/ node.has_coeff \/ k = Root
                THEN tasks' = done
                ELSE tasks' = [done EXCEPT ![KeyParent(k)] = @ + 1]

\* C10: from a connected tree, under every interleaving of accumulate and
\* set_has_children_recursive tasks, every entry is linked to its parent or
\* has the linking task pending, so that at a fence every node that received
\* coefficients exists and all its ancestors exist with has_children = TRUE;
\* the upward recursion stops at the first connected ancestor or the root.
C10_ConnectedAfterAccumulate ==
    /\ [](ConnectedOrPending /\ ConnectedAtFence)
    /\ [][StopsWhenConnected]_vars

\* at a fence, two sibling nodes at the deepest level have received
\* coefficients and their parent, which had no entry before, has none itself
C10_Witness ==
    /\ Quiescent
    /\ \E k \in accumulated :
          /\ KeyLevel(k) = TreeDepth
          /\ \E j \in accumulated : j # k /\ KeyParent(j) = KeyParent(k)
          /\ ~coeffs[KeyParent(k)].has_coeff
          /\ KeyParent(k) \notin accumulated

\* ========================================================================
\* Properties of gaxpy_inplace
\* ========================================================================
\* the keys whose node operation has run
GaxDone == gsent \ gpend

\* C11: a step that runs FunctionNode::gaxpy_inplace on the node of a key
\* leaves it with has_children = (old has_children or other's), and with
\* alpha*this + beta*other when both have coefficients, alpha*this when only
\* this has them, beta*other when only other has them, none when neither has.
C11_Step ==
    \A k \in GKeys :
        (k \in gpend /\ k \notin gpend') =>
            LET old == EntryFor(k)
                o == gother[k]
                new == gdest'[k]
                a == gargs.alpha
                b == gargs.beta
            IN  /\ new.exists
                /\ new.has_children = (old.has_children \/ o.has_children)
                /\ IF Len(old.coeff) > 0 /\ Len(o.coeff) > 0
                   THEN /\ Len(new.coeff) = Len(old.coeff)
                        /\ \A i \in 1..Len(old.coeff) :
                              new.coeff[i] = a * old.coeff[i] + b * o.coeff[i]
                   ELSE IF Len(old.coeff) > 0
                   THEN /\ Len(new.coeff) = Len(old.coeff)
                        /\ \A i \in 1..Len(old.coeff) : new.coeff[i] = a * old.coeff[i]
                   ELSE IF Len(o.coeff) > 0
                   THEN /\ Len(new.coeff) = Len(o.coeff)
                        /\ \A i \in 1..Len(o.coeff) : new.coeff[i] = b * o.coeff[i]
                   ELSE Len(new.coeff) = 0

C11_NodeGaxpy == [][C11_Step]_vars

\* the operation has run on a childless node with coefficients, with scalars
\* 2 and 3 and another node that has coefficients and children
C11_Witness ==
    \E k \in GaxDone :
        /\ gargs.alpha = 2 /\ gargs.beta = 3
        /\ Len(gold[k].coeff) > 0 /\ ~gold[k].has_children
        /\ Len(gother[k].coeff) > 0 /\ gother[k].has_children
        /\ gdest[k].has_children
        /\ gdest[k].coeff[1] = 2 * gold[k].coeff[1] + 3 * gother[k].coeff[1]

\* C12: when gaxpy_inplace has returned from its fence, every node that
\* carried coefficients before the call holds alpha*old + beta*other(key),
\* other(key) being zero where the other tree has no node or no coefficients.
C12_GaxpyAtFence ==
    gpc = "fenced" =>
        \A k \in GKeys :
            Len(gold[k].coeff) > 0 =>
                /\ Len(gdest[k].coeff) = Len(gold[k].coeff)
                /\ \A i \in 1..Len(gold[k].coeff) :
                      gdest[k].coeff[i] =
                          gargs.alpha * gold[k].coeff[i]
                          + gargs.beta * (IF Len(gother[k].coeff) > 0 THEN gother[k].coeff[i] ELSE 0)

\* ========================================================================
\* Properties of the member functions
\* ========================================================================
\* C13: compress_op stores the filtered child blocks as an interior node
\* (has_children = TRUE) and returns the scaling block as it was before any
\* zeroing; the stored scaling block is zero at every non-root key when
\* nonstandard is false, and is the filtered one at the root and, when
\* nonstandard is true, at every key.
C13_CompressOp ==
    op = "compress_op" =>
        LET f == filter(<<opin.v[0][1], opin.v[1][1]>>)
            c == opout.node.coeff
        IN  /\ opout.node.exists /\ opout.node.has_children
            /\ opout.ret = <<f[S0]>>
            /\ Len(c) = 2
            /\ c[2] = f[2]
            /\ c[S0] = IF opin.level > 0 /\ ~opin.nonstandard THEN 0 ELSE f[S0]

\* compress_op zeroed a non-zero scaling block at a non-root key and
\* returned it
C13_Witness ==
    /\ op = "compress_op"
    /\ opin.level > 0 /\ ~opin.nonstandard
    /\ opout.ret[1] > 0
    /\ opout.node.coeff[S0] = 0

\* a node and its two children as a reconstructed tree has them: a leaf with
\* coefficients and no child entries, or an empty interior node with both
\* children present
ReconstructedAt(t) ==
    /\ t.node.exists
    /\ \/ /\ Len(t.node.coeff) > 0 /\ ~t.node.has_children
          /\ \A c \in 0..1 : ~t.child[c].exists
       \/ /\ Len(t.node.coeff) = 0 /\ t.node.has_children
          /\ \A c \in 0..1 : t.child[c].exists

\* C14: refine_op refines exactly a node that has coefficients, lies at a
\* level below max_refine_level and passes autorefine_square_test: the node
\* ends empty with has_children = TRUE and both children are leaves with
\* coefficients; otherwise nothing changes.  A reconstructed node stays one.
C14_RefineOp ==
    op = "refine_op" =>
        /\ IF Len(opin.t.node.coeff) > 0 /\ opin.level < opin.max_refine_level /\ opin.test
           THEN /\ opout.node.exists
                /\ Len(opout.node.coeff) = 0
                /\ opout.node.has_children
                /\ \A c \in 0..1 :
                      /\ opout.child[c].exists
                      /\ Len(opout.child[c].coeff) > 0
                      /\ ~opout.child[c].has_children
           ELSE opout = opin.t
        /\ ReconstructedAt(opin.t) => ReconstructedAt(opout)

\* a leaf of a reconstructed tree was refined into two leaves
C14_Witness ==
    /\ op = "refine_op"
    /\ ReconstructedAt(opin.t)
    /\ opin.level < opin.max_refine_level
    /\ opin.test
    /\ opout.node.has_children
    /\ Len(opout.child[0].coeff) > 0 /\ Len(opout.child[1].coeff) > 0

\* ========================================================================
\* Properties of mulXX
\* ========================================================================
\* the norm (squared) mulXXa uses for a tree at key k: that of the
\* coefficients handed down from the leaf at or above k, else the norm tree
CoverNormSq(tree, k) ==
    LET above == {a \in {k} \cup Ancestors(k) : has_coeff(tree[a])}
    IN  IF above # {}
        THEN NormSq(tree[CHOOSE a \in above : TRUE].coeff)
        ELSE NormTreeSq(tree, k)

\* key k of the result is an empty interior node, written as such, all of
\* whose children were spawned
ResultInterior(k) ==
    /\ Len(mresult[k].coeff) = 0 /\ mresult[k].has_children
    /\ mlog[k] = "interior"
    /\ \A c \in KeyChildren(k) :
          /\ c \in MKeys
          /\ mresult[c].exists \/ (\E t \in mtasks : t.key = c)

\* key k of the result is a leaf with k^d coefficients: a product, or a
\* zero leaf written with tol non-zero and the norm product below it
ResultLeaf(k) ==
    /\ Len(mresult[k].coeff) = 1 /\ ~mresult[k].has_children
    /\ \/ mlog[k] = "do_mul"
       \/ /\ mlog[k] = "zero"
          /\ mresult[k].coeff = <<0>>
          /\ mtol # 0
          /\ CoverNormSq(mleft, k) * CoverNormSq(mright, k) < mtol * mtol

\* the leaves of tree tile the interval: every cell of the deepest level
\* lies in exactly one leaf, and entries exist exactly at and above leaves
Tiles(tree) ==
    /\ \A j \in MKeys :
          KeyLevel(j) = MulDepth =>
              Cardinality({a \in {j} \cup Ancestors(j) : has_coeff(tree[a])}) = 1
    /\ \A k \in MKeys :
          tree[k].exists =>
              /\ has_coeff(tree[k]) # tree[k].has_children
              /\ \A a \in Ancestors(k) : tree[a].exists /\ ~has_coeff(tree[a])

\* C15: every key mulXX writes is an empty interior node whose children
\* were all spawned, or a leaf with k^d coefficients (a product, or a zero
\* leaf only with tol non-zero and the norm product below the tolerance); no
\* task looks up a key its tree lacks; at the fence the leaves of the result
\* tile the interval.
C15_MulReconstructed ==
    /\ \A k \in MKeys : mresult[k].exists => (ResultInterior(k) \/ ResultLeaf(k))
    /\ \A t \in mtasks :
          /\ Len(t.lc) = 0 => mleft[t.key].exists
          /\ Len(t.rc) = 0 => mright[t.key].exists
    /\ mpc = "fenced" => Tiles(mresult)

\* at the fence the result has a zero leaf below the root and a product leaf
C15_Witness ==
    /\ mpc = "fenced"
    /\ \E k \in MKeys : k # Root /\ mlog[k] = "zero"
    /\ \E k \in MKeys : mlog[k] = "do_mul"

\* ------------------------------------------------------------------------
\* C16: apply(op, f) schedules exactly one do_apply task for every node of f
\* whose coefficients have first dimension k, whatever the operator's
\* doleaves flag is, and schedules none for a node without coefficients.
\* ------------------------------------------------------------------------
TasksFor(key) == Cardinality({i \in 1..Len(opout) : opout[i].key = key})

C16_ApplySchedules ==
    op = "apply" =>
        \A key \in DOMAIN opin.f :
            LET node == opin.f[key]
            IN  /\ (node # NoEntry /\ has_coeff(node) /\ dim0(node) = opin.k)
                        => TasksFor(key) = 1
                /\ (node = NoEntry \/ ~has_coeff(node)) => TasksFor(key) = 0

\* C16, amended: apply(op, f) schedules exactly one do_apply task for every
\* node of f whose coefficients have a first dimension other than k, and for
\* a node whose coefficients have first dimension k one task when the
\* operator's doleaves flag is set and none when it is not; it schedules
\* none for a node without coefficients.
C16_ApplyByDoleaves ==
    op = "apply" =>
        \A key \in DOMAIN opin.f :
            LET node == opin.f[key]
            IN  IF node = NoEntry \/ ~has_coeff(node) THEN TasksFor(key) = 0
                ELSE IF dim0(node) # opin.k THEN TasksFor(key) = 1
                ELSE TasksFor(key) = (IF opin.doleaves THEN 1 ELSE 0)

\* apply has run without doleaves on a tree holding a node of order k, which
\* got no task, and a node of another order, which got one
C16_Witness ==
    /\ op = "apply"
    /\ ~opin.doleaves
    /\ \E a, b \in DOMAIN opin.f :
        /\ opin.f[a] # NoEntry /\ dim0(opin.f[a]) = opin.k /\ TasksFor(a) = 0
        /\ opin.f[b] # NoEntry /\ has_coeff(opin.f[b])
        /\ dim0(opin.f[b]) # opin.k /\ TasksFor(b) = 1

\* ------------------------------------------------------------------------
\* C17: in do_apply at a key of level n, for every periodic axis i
\* (bc(i,0) = 1), whichever axis it is and whatever the other axes are, no
\* kernel task is scheduled for a displacement whose component d_i is
\* greater than 2^(n-1) or at most -2^(n-1).
\* ------------------------------------------------------------------------
\* d_i > 2^(n-1) or d_i <= -2^(n-1), written without the fraction of n = 0
BeyondHalfCell(x, n) == 2 * x > 2^n \/ 2 * x <= 0 - 2^n

C17_PeriodicCap ==
    op = "do_apply" =>
        \A j \in 1..Len(opout) :
            opout[j].did = "task" =>
                \A i \in Axes :
                    opin.bc[i][1] = 1 => ~BeyondHalfCell(opout[j].d[i], opin.key.n)

\* ------------------------------------------------------------------------
\* C18: in do_apply the enumeration of the displacement list is abandoned on
\* a screened-out displacement (cnorm*opnorm <= tol/fac) only when that
\* displacement lies beyond nearest-neighbour distance; a screened-out zero
\* or nearest-neighbour displacement, and a displacement whose destination
\* is invalid under the boundary condition, is skipped and the loop goes on
\* to the displacements after it.
\* ------------------------------------------------------------------------
ScreenedOut(turn) == ~PassesScreen(opin.cnorm, turn.opnorm, 1, opin.key.n, 0)

C18_AbandonOnlyBeyondNeighbor ==
    op = "do_apply" =>
        \A j \in 1..Len(opout) :
            LET turn == opout[j]
            IN  /\ (ScreenedOut(turn) /\ ~turn.goon) => distsq(turn.d) >= 1
                /\ (ScreenedOut(turn) /\ distsq(turn.d) = 0) => turn.goon
                /\ ~is_valid(turn.dest) => turn.goon

\* ------------------------------------------------------------------------
\* C19: for every key k at level n and every axis with periodic boundary
\* condition, neighbor(neighbor(k, axis, +1), axis, -1) = k, the shifted
\* coordinate being wrapped modulo 2^n; for an axis with zero boundary
\* condition neighbor returns the invalid key exactly when the shifted
\* coordinate leaves [0, 2^n).
\* ------------------------------------------------------------------------
C19_Neighbor ==
    op = "neighbor" =>
        LET key == opin.key
            axis == opin.axis
            x == key.l[axis] + opin.step
        IN  /\ opin.bc[axis] = <<1, 1>> =>
                /\ is_valid(opout.there)
                /\ opout.there.l[axis] = x % 2^(key.n)
                /\ opout.there.l[axis] \in 0..(2^(key.n) - 1)
                /\ \A i \in Axes \ {axis} : opout.there.l[i] = key.l[i]
                /\ opout.back = key
            /\ opin.bc[axis] = <<0, 0>> =>
                (opout.there = InvalidKey <=> (x < 0 \/ x >= 2^(key.n)))

\* a step of +1 off the upper face of a periodic axis at level 2 came back
\* at coordinate 0, and the step of -1 from there returned the key
C19_Witness ==
    /\ op = "neighbor"
    /\ opin.key.n = 2
    /\ opin.step = 1
    /\ opin.bc[opin.axis] = <<1, 1>>
    /\ opin.key.l[opin.axis] = 3
    /\ opout.there.l[opin.axis] = 0
    /\ opout.back = opin.key

\* ------------------------------------------------------------------------
\* C20: constructing a FunctionImpl from a factory with an invalid option
\* (k outside [1, MAXK], or truncate_mode outside {0, 1, 2}) fails inside
\* the constructor, for every combination of the other options, empty()
\* included; no tree with an invalid option survives construction to fail
\* later inside an algorithm.
\* ------------------------------------------------------------------------
InvalidOption(factory) ==
    ~(factory.k \in 1..MAXK) \/ ~(factory.truncate_mode \in {0, 1, 2})

C20_InvalidOptionRejected ==
    /\ (op = "FunctionImpl" /\ InvalidOption(opin)) => opout.status = "failed"
    /\ op = "truncate_tol" => opout.status # "exception"

\* ------------------------------------------------------------------------
\* C21: the common tables of an order k are initialized at most once, on
\* the first get(k), and are never written again once a caller has obtained
\* them, also when several threads issue the first request for the same k
\* at the same time: no caller sees partially initialized or changing
\* tables.
\* ------------------------------------------------------------------------
Holds(t, k) == cthr[t].pc = "got" /\ cthr[t].k = k
Writing(t, k) == cthr[t].pc \in {"fields", "tables", "flag"} /\ cthr[t].k = k

C21_InitializedOnce ==
    \A k \in CommonOrders :
        /\ data[k].ninit <= 1
        /\ (\E t \in CommonThreads : Holds(t, k)) =>
              /\ data[k].tables = "complete"
              /\ ~\E u \in CommonThreads : Writing(u, k)

\* ------------------------------------------------------------------------
\* C22: SimpleMap::owner gives a rank in [0, nproc); the root maps to rank
\* 0, a key at level <= n maps by the hash of the key itself, a key at
\* level > n by the hash of its ancestor at level n, so that every key at
\* level >= n (with n >= 1) has the same owner as each of its 2^d children.
\* ------------------------------------------------------------------------
AncestorAt(key, n) ==
    [n |-> n, l |-> [i \in Axes |-> key.l[i] \div 2^(key.n - n)]]

C22_Owner ==
    op = "owner" =>
        LET key == opin.key
            n == opin.n
        IN  /\ opout.owner \in 0..(opin.nproc - 1)
            /\ key.n = 0 => opout.owner = 0
            /\ (key.n > 0 /\ key.n <= n) =>
                  opout.owner = hash(key, opin.seed) % opin.nproc
            /\ key.n > n /\ key.n > 0 =>
                  opout.owner = hash(AncestorAt(key, n), opin.seed) % opin.nproc
            /\ (n >= 1 /\ key.n >= n) =>
                  \A c \in ChildrenOf(key) : opout.child[c] = opout.owner

\* owner has been asked for a key below level n of a map over several
\* processes whose children all landed on its own, non-zero, rank
C22_Witness ==
    /\ op = "owner"
    /\ opin.n = 1
    /\ opin.key.n = 2
    /\ opin.nproc = 3
    /\ opout.owner # 0
    /\ \A c \in ChildrenOf(opin.key) : opout.child[c] = opout.owner

\* ------------------------------------------------------------------------
\* C23: store followed by load into a FunctionImpl of the same k restores
\* thresh, initial_level, max_refine_level, truncate_mode, autorefine,
\* truncate_on_project, nonstandard, compressed, bc and the node container
\* to the stored values and leaves the functor untouched; load into an impl
\* whose k differs from the stored k fails the assertion on k before any
\* other field is changed.
\* ------------------------------------------------------------------------
C23_StoreLoad ==
    op = "load" =>
        IF opin.from.k = opin.into.k
        THEN /\ opout.status = "loaded"
             /\ opout.impl = [opin.from EXCEPT !.functor = opin.into.functor]
        ELSE /\ opout.status = "failed"
             /\ opout.impl = opin.into

\* ------------------------------------------------------------------------
\* C24: standard() on a non-standard compressed tree zeroes the scaling
\* block of every interior node below the root that has coefficients and
\* deletes the coefficients of every leaf below the root, leaves the root's
\* coefficients and every has_children flag as they were, and a second
\* standard() changes nothing.
\* ------------------------------------------------------------------------
C24_Standard ==
    op = "standard" =>
        /\ \A k \in DOMAIN opin :
            LET before == opin[k]
                after == opout.once[k]
            IN  IF before = NoEntry THEN after = NoEntry
                ELSE /\ after.exists
                     /\ after.has_children = before.has_children
                     /\ k = Root => after.coeff = before.coeff
                     /\ (k # Root /\ before.has_children /\ has_coeff(before)) =>
                           /\ Len(after.coeff) = Len(before.coeff)
                           /\ after.coeff[S0] = 0
                           /\ \A i \in 1..Len(before.coeff) :
                                 i # S0 => after.coeff[i] = before.coeff[i]
                     /\ (k # Root /\ ~before.has_children) => after.coeff = EmptyTensor
        /\ opout.twice = opout.once

\* standard() has zeroed a non-zero scaling block of an interior node below
\* the root, deleted the coefficients of a leaf, and kept a root with a
\* non-zero scaling block
C24_Witness ==
    /\ op = "standard"
    /\ has_coeff(opin[Root]) /\ opin[Root].coeff[S0] # 0
    /\ opout.once[Root] = opin[Root]
    /\ \E k \in DOMAIN opin :
        /\ k # Root /\ opin[k] # NoEntry /\ opin[k].has_children
        /\ has_coeff(opin[k]) /\ opin[k].coeff[S0] # 0
        /\ opout.once[k].coeff[S0] = 0
    /\ \E k \in DOMAIN opin :
        /\ k # Root /\ opin[k] # NoEntry /\ ~opin[k].has_children
        /\ has_coeff(opin[k]) /\ ~has_coeff(opout.once[k])

AfterInsertion == {"schedule", "pp_coeffs", "pp_this", "fence", "done"}

C27_RmiSizes ==
    op = "RMI" =>
        /\ opin.buf.set =>
            /\ ~SizeBelow(opout.max_msg_len_, 1024)
            /\ SizeMod(opout.max_msg_len_, ALIGNMENT) = 0
        /\ opout.nrecv_ >= DEFAULT_NRECV
        /\ opout.maxq_ = opout.nrecv_ + 1

\* ------------------------------------------------------------------------
\* C28: at the end of each wakeup of the server, after the out-of-order
\* queue was sorted and scanned once, no message left in the queue has a
\* sequence number equal to recv_counters[src] of its source.
\* ------------------------------------------------------------------------
ReadyInQueue == {k \in 1..Len(q) : q[k].count = recv_counters[q[k].src]}

C28_QueueDrained == srvpc = "poll" => ReadyInQueue = {}

\* ------------------------------------------------------------------------
\* C29: compress sets compressed = true and nonstandard to its argument,
\* reconstruct sets both flags to false, on every rank and before any
\* recursion task is spawned, whatever the fence argument; so over any
\* sequence of calls is_compressed() reflects the most recent call, even
\* when earlier calls were not fenced.
\* ------------------------------------------------------------------------
FlagsWanted(c) ==
    [compressed |-> c.f = "compress", nonstandard |-> c.f = "compress" /\ c.nonstandard]

C29_FlagsFollowLastCall ==
    /\ \A r \in FlagRanks :
        flagidx[r] > 0 =>
            /\ flags[r] = FlagsWanted(flagprog[flagidx[r]])
            /\ is_compressed(r) = (flagprog[flagidx[r]].f = "compress")
    /\ \A t \in flagtasks : t.seen = FlagsWanted(flagprog[t.call])

\* both ranks have made a compress call that was not fenced and then a
\* reconstruct call, while the task of the compress call is still to run
C29_Witness ==
    /\ \A r \in FlagRanks : flagidx[r] >= 2 /\ flagpc[r] = "idle"
    /\ \E i \in 1..(Len(flagprog) - 1) :
        /\ flagprog[i].f = "compress" /\ flagprog[i].nonstandard /\ ~flagprog[i].fence
        /\ flagprog[i + 1].f = "reconstruct"
        /\ \A r \in FlagRanks : flagidx[r] = i + 1
        /\ \E t \in flagtasks : t.call = i
    /\ \A r \in FlagRanks : ~is_compressed(r)

\* ------------------------------------------------------------------------
\* C30: construction from a functor seeds zero nodes down to initial_level
\* (initial_level - 1, floored at 0, when refine is requested) and
\* schedules project_refine_op exactly once for every local leaf of the
\* seeded tree and for no interior node; the fence of the constructor runs
\* only when the fence option is set and a functor is present.
\* ------------------------------------------------------------------------
FromFunctor == fi.which = "factory" /\ ~fi.empty /\ fi.functor

LevelWanted ==
    IF fi.refine THEN (IF fi.initial_level >= 1 THEN fi.initial_level - 1 ELSE 0)
    ELSE fi.initial_level

TasksOn(k) == Cardinality({i \in 1..Len(fitasks) : fitasks[i] = k})

C30_FunctorConstruction ==
    /\ (fipc = "done" /\ FromFunctor) =>
        \A k \in MKeys :
            /\ (k \in fi.local /\ KeyLevel(k) < LevelWanted) =>
                    /\ ficoeffs[k] = MakeNode(EmptyTensor, TRUE)
                    /\ TasksOn(k) = 0
            /\ (k \in fi.local /\ KeyLevel(k) = LevelWanted) =>
                    /\ ficoeffs[k] = MakeNode(<<0>>, FALSE)
                    /\ TasksOn(k) = 1
            /\ (k \notin fi.local \/ KeyLevel(k) > LevelWanted) =>
                    /\ ficoeffs[k] = NoEntry
                    /\ TasksOn(k) = 0
    /\ (fipc = "done" /\ fi.which = "factory") => (fifenced <=> (fi.fence /\ fi.functor))
    /\ (fi.which = "factory" /\ ~FromFunctor) => fitasks = <<>>

\* a functor was projected with refine from initial_level 2: the root is
\* interior, the two nodes of level 1 are leaves with a task each, and the
\* constructor fenced
C30_Witness ==
    /\ fipc = "done" /\ FromFunctor
    /\ fi.refine /\ fi.initial_level = 2 /\ fi.fence /\ fi.local = MKeys
    /\ fitasks = <<2, 3>>
    /\ ficoeffs[Root].has_children
    /\ fifenced

\* ------------------------------------------------------------------------
\* C31: a destination rank has at most one huge receive buffer allocated
\* and posted; queued huge requests are served in the order in which their
\* control records arrived; and the next request is posted, and its ACK
\* sent, only after the handler of the previous huge message has run and
\* its buffer was freed.
\* ------------------------------------------------------------------------
\* the requests accepted and not yet finished: the one the huge buffer is
\* allocated for, then the queue
PendingOf(buf, hq) ==
    (IF buf[nrecv_].st # "null" THEN <<buf[nrecv_].want>> ELSE <<>>) \o hq

HugeHandled(log) ==
    Cardinality({<<s, k>> \in Srcs \X (1..(2 * MaxCalls)) :
                    k <= Len(log[s]) /\ log[s][k].msg.tag = "RMI_HUGE_DAT_TAG"})

AcksSent(acks) == acks[1] + acks[2]

HugeStep ==
    LET old == PendingOf(recv_buf, hugeq)
        new == PendingOf(recv_buf', hugeq')
        busy(buf) == IF buf[nrecv_].st # "null" THEN 1 ELSE 0
    IN  \E j \in 0..Len(old) :
            \* the first j requests are finished, the others keep their order
            /\ \A i \in 1..j : \A k \in 1..Len(new) : new[k].req # old[i].req
            /\ Len(new) >= Len(old) - j
            /\ \A i \in (j + 1)..Len(old) : new[i - j] = old[i]
            \* a request leaves only through the handler of its payload
            /\ j <= busy(recv_buf)
            /\ HugeHandled(dispatched') - HugeHandled(dispatched) = j
            \* one ACK for each request posted in this step
            /\ ackq' = ackq =>
                  AcksSent(ackflight') - AcksSent(ackflight)
                      = j + busy(recv_buf') - busy(recv_buf)

C31_HugeOneAtATime == [][HugeStep]_vars

\* one huge message has been handled, the buffer is allocated for a second
\* request and a third waits in the queue
C31_Witness ==
    /\ recv_buf[nrecv_].st # "null"
    /\ hugeq # <<>>
    /\ HugeHandled(dispatched) >= 1

\* ------------------------------------------------------------------------
\* C32: FunctionNode::convert<Q>() returns a node with all state of the
\* source other than the element type of the coefficients: has_children
\* and norm_tree equal those of the source (and the coefficients are the
\* source's, converted).
\* ------------------------------------------------------------------------
C32_ConvertCopiesState ==
    op = "convert" =>
        /\ opout.has_children = opin.has_children
        /\ opout.norm_tree = opin.norm_tree
        /\ opout.coeff = convert_coeff(opin.coeff)

Handled(m, log) == \E k \in 1..Len(log[m.src]) : log[m.src][k].msg = m

\* every parked message still finds its bytes in its buffer, which is not
\* posted
ParkedKeepBuffer ==
    \A k \in 1..Len(q) :
        /\ recv_buf[q[k].i].st = "held"
        /\ recv_buf[q[k].i].msg = q[k].msg
        /\ q[k].i \notin posted

\* a buffer that holds a message gives it up only in a step that runs, or
\* follows, the handler of that message
ReleaseStep ==
    \A i \in 0..nrecv_ :
        (/\ recv_buf[i].st \in {"complete", "held"}
         /\ \/ recv_buf'[i].st \in {"posted", "null"}
            \/ recv_buf'[i].msg # recv_buf[i].msg)
        => Handled(recv_buf[i].msg, dispatched')

C34_BufferKeptUntilHandled == []ParkedKeepBuffer /\ [][ReleaseStep]_vars

\* a message was parked, then handled from the queue, and its buffer is
\* posted again
C34_Witness ==
    \E s \in Srcs : \E k \in 1..Len(dispatched[s]) :
        /\ dispatched[s][k].via = "queue"
        /\ \A i \in 0..nrecv_ : recv_buf[i].msg # dispatched[s][k].msg
        /\ q # <<>>

\* ------------------------------------------------------------------------
\* C35: for gaxpy(alpha, left, beta, right, fence = true) the final tree of
\* the result is the same for every delivery order of the node operations:
\* at each key the coefficients are old + alpha*left + beta*right, absent
\* coefficients counting as zero, and has_children is the OR of the old
\* flag and the flags of both operands.
\* ------------------------------------------------------------------------
\* the coefficient of a node (k = 1), zero when it has none
CoeffOrZero(node) == IF has_coeff(node) THEN node.coeff[1] ELSE 0

C35_GaxpyAnyOrder ==
    xpc = "fenced" =>
        \A k \in GKeys :
            /\ xres[k].exists <=> (xold[k].exists \/ xleft[k].exists \/ xright[k].exists)
            /\ CoeffOrZero(xres[k]) = CoeffOrZero(xold[k]) + xargs.alpha * CoeffOrZero(xleft[k])
                                        + xargs.beta * CoeffOrZero(xright[k])
            /\ has_coeff(xres[k]) <=>
                    (has_coeff(xold[k]) \/ has_coeff(xleft[k]) \/ has_coeff(xright[k]))
            /\ xres[k].has_children <=>
                    (xold[k].has_children \/ xleft[k].has_children \/ xright[k].has_children)

\* at a key where the result and both operands have coefficients the
\* operation for right ran before the one for left
C35_Witness ==
    /\ xpc = "fenced"
    /\ \E k \in GKeys :
        /\ has_coeff(xold[k]) /\ has_coeff(xleft[k]) /\ has_coeff(xright[k])
        /\ xright[k].has_children /\ ~xleft[k].has_children
        /\ \E i, j \in 1..Len(xlog) :
              i < j /\ xlog[i] = <<"right", k>> /\ xlog[j] = <<"left", k>>

\* ------------------------------------------------------------------------
\* C36: one call of refine(fence = true) deepens the tree by at most one
\* level below each leaf that existed when the call started: refine_spawn
\* visits every key exactly once, refine_op is scheduled only for nodes
\* that are leaves when visited, and the children refine_op creates are not
\* themselves refined within the call, whatever the order of the tasks.
\* ------------------------------------------------------------------------
WasLeaf(k) == rold[k].exists /\ ~rold[k].has_children

C36_RefineOneLevel ==
    /\ \A k \in MKeys :
        /\ rvisits[k] <= 1 /\ rops[k] <= 1
        /\ rops[k] + rpend[<<"refine_op", k>>] > 0 => WasLeaf(k)
        /\ rvisits[k] + rpend[<<"refine_spawn", k>>] > 0 => rold[k].exists
        /\ (rtree[k].exists /\ ~rold[k].exists) => (k # Root /\ WasLeaf(KeyParent(k)))
    /\ rpc = "fenced" =>
        \A k \in MKeys :
            /\ rvisits[k] = (IF rold[k].exists THEN 1 ELSE 0)
            /\ rops[k] = (IF WasLeaf(k) THEN 1 ELSE 0)

\* the root was the only node, it has been refined, and the call is over:
\* its two children are leaves on which neither task ran
C36_Witness ==
    /\ rpc = "fenced"
    /\ WasLeaf(Root)
    /\ rtree[Root].has_children
    /\ \A c \in KeyChildren(Root) :
          rtree[c].exists /\ ~rtree[c].has_children /\ rvisits[c] = 0 /\ rops[c] = 0

\* ------------------------------------------------------------------------
\* C37: in the mulXX recursion over two connected reconstructed trees whose
\* leaves tile the domain, a key is looked up in an operand only where that
\* operand has a node, and no task runs deeper than the deepest leaf of the
\* two operands.
\* ------------------------------------------------------------------------
\* level of the deepest leaf of a tree
DeepestLeaf(tree) ==
    CHOOSE n \in 0..MulDepth :
        /\ \E k \in MKeys : has_coeff(tree[k]) /\ KeyLevel(k) = n
        /\ \A k \in MKeys : has_coeff(tree[k]) => KeyLevel(k) <= n

\* the task reads only nodes that exist and is no deeper than the operands
LookupFinds(t) ==
    /\ t.key \in MKeys
    /\ Len(t.lc) = 0 => mleft[t.key].exists
    /\ Len(t.rc) = 0 => mright[t.key].exists
    /\ KeyLevel(t.key) <= DeepestLeaf(mleft) \/ KeyLevel(t.key) <= DeepestLeaf(mright)

C37_LookupsFindNodes ==
    mpc # "idle" =>
        /\ \A t \in mtasks : LookupFinds(t)
        /\ \A k \in MKeys :
              mresult[k].exists =>
                  KeyLevel(k) <= DeepestLeaf(mleft) \/ KeyLevel(k) <= DeepestLeaf(mright)

\* the right operand is a single leaf at the root, the left one has a leaf
\* at the deepest level and the product was formed there: the left tree
\* was looked up at every level on the way down, the right one only at the
\* root
C37_Witness ==
    /\ mpc = "fenced"
    /\ has_coeff(mright[Root])
    /\ \E k \in MKeys :
          KeyLevel(k) = MulDepth /\ has_coeff(mleft[k]) /\ mlog[k] = "do_mul"

\* ------------------------------------------------------------------------
\* C38: with a single right operand, mulXXvec(left, [right], [result], tol,
\* fence = true) leaves in result the same keys, each written the same way
\* (product leaf, zero leaf or interior node), as mulXX(left, right, tol,
\* fence = true) leaves in its result.
\* ------------------------------------------------------------------------
C38_VecMatchesSingle ==
    (mpc = "fenced" /\ vpc = "fenced") =>
        \A k \in MKeys :
            /\ vresult[k].exists = mresult[k].exists
            /\ vlog[k] = mlog[k]

\* where the tolerance is zero the two results do agree
C38_AgreeWithoutTol ==
    (mpc = "fenced" /\ vpc = "fenced" /\ mtol = 0) =>
        \A k \in MKeys : vresult[k] = mresult[k] /\ vlog[k] = mlog[k]

\* ------------------------------------------------------------------------
\* C39: after norm_tree(fence = true) on a connected tree the norm_tree of
\* every interior node has been set, in place of the value its constructor
\* gave it, to the root-sum-square of what its children returned, a leaf
\* returning the norm of its own coefficients; nothing is stored in a leaf,
\* and no node's coefficients or has_children flag change.
\* ------------------------------------------------------------------------
\* square of the _norm_tree field of the node at key k: what set_norm_tree
\* was sent, or the value of the constructor
NormTreeField(k) == IF nres[k] = <<>> THEN NormTreeDefault ELSE nres[k][1]

\* square of what norm_tree_spawn on key c has returned
ReturnedSq(c) ==
    IF ntree[c].has_children THEN NormTreeField(c) ELSE NormSq(ntree[c].coeff)

NormTreeAtFence ==
    nkind = "norm_tree" =>
        /\ \A k \in MKeys : nres[k] # <<>> => (ntree[k].exists /\ ntree[k].has_children)
        /\ ntpc = "fenced" =>
              \A k \in MKeys :
                  (ntree[k].exists /\ ntree[k].has_children) =>
                      /\ nres[k] # <<>>
                      /\ NormTreeField(k) # NormTreeDefault
                      /\ NormTreeField(k) = ReturnedSq(2 * k) + ReturnedSq(2 * k + 1)

C39_NormTreeFrame == []NormTreeAtFence /\ [][ntree' = ntree]_vars

\* norm_tree has returned on a tree with an interior node below the root and
\* non-zero coefficients under it: both interior nodes hold a norm, the
\* leaves none
C39_Witness ==
    /\ ntpc = "fenced" /\ nkind = "norm_tree"
    /\ \E k \in MKeys :
          /\ k # Root /\ ntree[k].has_children
          /\ NormTreeField(k) = 2
          /\ NormTreeField(Root) > 2
          /\ \A c \in KeyChildren(k) : NormTreeField(c) = NormTreeDefault

\* ------------------------------------------------------------------------
\* C40: RMI::isend with nbyte < HEADER_LEN raises an exception before any
\* state changes: no sequence number is consumed, the send statistics are
\* unchanged, the mutex is not held and nothing is submitted to the
\* transport.
\* ------------------------------------------------------------------------
C40_ShortRaises ==
    (op = "isend" /\ opin.nbyte < HEADER_LEN) =>
        /\ opout.raised
        /\ opout.submitted = {}
        /\ ~opout.locked /\ ~opout.stamped /\ opout.nmsg_sent = 0

\* on an object whose max_msg_len_ is the default one, a call that starts
\* either raises and changes nothing else, or carries at least a header
ShortStep ==
    ncalls' # ncalls =>
        \/ /\ excs' = excs \cup {ncalls'}
           /\ UNCHANGED <<send_counters, mutex, thr, ackq, net, sublog>>
        \/ /\ excs' = excs
           /\ \E s \in DOMAIN thr : \E t \in DOMAIN thr[s] :
                 /\ thr'[s][t] # thr[s][t]
                 /\ thr'[s][t].nbyte >= HEADER_LEN

C40_ShortRaisesByDefault == [][ShortStep]_vars

====
